---- MODULE Spec2Model ----
(***************************************************************************)
(* A model of the changelog viewer: the Tag Matrix Model of hooks/useData  *)
(* (flattenTags, productHasTag, getProductTagFeatures, getTagFeatures,     *)
(* parseDate, getPrimaryTags, getSubtags), the Matrix page that renders    *)
(* it, and the admin console's session and job-status polling.             *)
(*                                                                         *)
(* JavaScript values are encoded as follows.  A field that should hold an  *)
(* array is a record [kind, items]: kind "array" with its items, kind      *)
(* "undefined" for a missing field (undefined, null and every other falsy  *)
(* value behave alike in the code modelled), and kind "string" for the     *)
(* truthy non-array the raw data is known to hold, the string "None".      *)
(* A call's outcome is a record with a field threw: TRUE stands for the    *)
(* TypeError the JavaScript engine raises.                                 *)
(***************************************************************************)
EXTENDS Integers, Sequences, FiniteSets, TLC

VARIABLES
    \* ---- taxonomy functions (flattenTags, getPrimaryTags, getSubtags)
    tags,          \* the taxonomy handed to the function: Tag[]
    tagQuery,      \* the primaryTag argument of getSubtags
    tagCall,       \* which function has been applied: "none" before any
    tagOut         \* its outcome: [threw, rows, names]

tagVars == <<tags, tagQuery, tagCall, tagOut>>

VARIABLES
    \* ---- product functions (productHasTag, getProductTagFeatures)
    product,       \* the product handed to the function
    primaryTag,    \* the primaryTag argument
    secondaryTag,  \* the secondaryTag argument
    prodCall,      \* which function has been applied: "none" before any
    prodOut        \* its outcome: [threw, has, features]

prodVars == <<product, primaryTag, secondaryTag, prodCall, prodOut>>

VARIABLES
    \* ---- getTagFeatures
    engine,        \* the JavaScript engine and its time zone
    products,      \* the products handed to getTagFeatures: Product[]
    sortCall,      \* "none" before the call, "getTagFeatures" after it
    sortOut        \* its outcome: [threw, items]

sortVars == <<engine, products, sortCall, sortOut>>

VARIABLES
    \* ---- MatrixPage
    matrixTags,           \* the tags prop: the loaded taxonomy
    matrixProducts,       \* the products prop: the loaded products
    excludeTags,          \* state: the names hidden from the matrix
    expandedPrimaryTags,  \* state: the primary tags shown row by row
    configFetch,          \* the fetch of admin_config.json: "pending", "settled"
                          \* ("none" on a page that does not fetch it and
                          \* while no page is on the screen)
    matrixView            \* what the last render put on the screen

matrixVars ==
    <<matrixTags, matrixProducts, excludeTags, expandedPrimaryTags,
      configFetch, matrixView>>

VARIABLES
    \* ---- the routes of App, TagsPage and TagDetailPage
    appScreen,       \* what App returns: "loading", "error" or "routes"
    route,           \* the route of the address: "matrix", "tags", "tagDetail"
                     \* (/tags/:primaryTag), "tagFeatures" (/tags/:primaryTag/
                     \* :secondaryTag), "products", "product", "feature", "admin"
    routeTag,        \* the :primaryTag of the address, "" when it has none
    routeSecondary,  \* the :secondaryTag of the address, "" when it has none
    routeProduct,    \* the :productName of the address, "" when it has none
    tagsView,        \* what the last render of the Tags page put on the screen
    detailView       \* what the last render of TagDetailPage put on the screen

viewVars ==
    <<appScreen, route, routeTag, routeSecondary, routeProduct, tagsView,
      detailView>>

VARIABLES
    \* ---- AdminPage: the session and the bearer-authenticated calls
    localStorageToken,  \* localStorage item admin_token, Null when absent
    authToken,          \* state: the token, or Null
    isAuthenticated,    \* state
    scriptLogs,         \* state: "empty" or "loaded"
    requests,           \* the requests in flight, in the order they were sent
    lastResponse,       \* the response the last step dealt with, if it did
    mounted             \* whether the mount effect has run

adminVars ==
    <<localStorageToken, authToken, isAuthenticated, scriptLogs, requests,
      lastResponse, mounted>>

VARIABLES
    \* ---- AdminPage: the long-running jobs
    crawlStatus,    \* state: [lastRun, isRunning]
    summaryStatus,  \* state: [lastRun, isRunning]
    loops,          \* the polling loops started by pollTaskStatus
    triggers,       \* for each job, its triggering POSTs in flight
    pollEvent       \* what the last step dealt with: a trigger or a check

pollVars == <<crawlStatus, summaryStatus, loops, triggers, pollEvent>>

VARIABLES
    \* ---- AdminPage: the lists of the console and their loaders
    featureProduct,  \* state: the product of the feature list
    featurePage,     \* state: the page of the feature list
    featureSearch,   \* state: the text of the search box
    featureTotal,    \* state: the total the last ok load reported
    featuresShown,   \* state: features.length, the cards of the feature list
    listShown,       \* per list: the request whose response filled the state
    listLoading,     \* per list: othersLoading, untaggedLoading, featuresLoading
    listError,       \* per list: othersError, untaggedError, featuresError
    listRequests,    \* the loads and the writes in flight
    listEvent,       \* the load the last step ended, and how
    issued           \* how many requests have been sent

listVars ==
    <<featureProduct, featurePage, featureSearch, featureTotal, featuresShown,
      listShown, listLoading, listError, listRequests, listEvent, issued>>

VARIABLES
    \* ---- FeatureTagCard of AdminPage: the tags being edited
    cardFeature,      \* prop: the tags of the feature the card is handed
    editedTags,       \* state: the tags of the feature as edited
    selectedPrimary,  \* state: the value of the first select, "" for none
    selectedSubtag,   \* state: the value of the second select, "" for none
    cardEvent         \* the handler the last step ran, and the list before it

cardVars ==
    <<cardFeature, editedTags, selectedPrimary, selectedSubtag, cardEvent>>

VARIABLES
    \* ---- useData and App
    hookTags,        \* state tags: "initial" for [], "loaded" for the document
    hookProducts,    \* state products: Product[]
    loading,         \* state
    error,           \* state: a message, or Null
    loadPhase,       \* where loadData is: "unmounted", "tags", "products", "done"
    loadTrigger,     \* what started the load: "mount", "retry", "refresh"
    tagFetch,        \* the fetch of tag.json: "idle", "pending", or how it ended
    productFetches,  \* per product key: "idle", "pending", or how it ended
    settled,         \* the product keys in the order their fetches completed
    assigned         \* how often this load has called setProducts

loadVars ==
    <<hookTags, hookProducts, loading, error, loadPhase, loadTrigger, tagFetch,
      productFetches, settled, assigned>>

VARIABLES
    \* ---- parseDate and its copy
    timeString,      \* the time string handed to both
    dateEngine,   \* the JavaScript engine and its time zone
    hookDate,     \* what parseDate of hooks/useData returned: [called, date]
    pageDate      \* what parseDate of ProductDetailPage returned

dateVars == <<timeString, dateEngine, hookDate, pageDate>>

vars ==
    <<tagVars, prodVars, sortVars, matrixVars, viewVars, adminVars, pollVars,
      listVars, cardVars, loadVars, dateVars>>

-----------------------------------------------------------------------------
(* JavaScript values *)

Undefined == "<undefined>"

Arr(s) == [kind |-> "array", items |-> s]
Missing == [kind |-> "undefined", items |-> <<>>]
NoneString == [kind |-> "string", items |-> <<>>]

IsArray(v) == v.kind = "array"

\* v || [] : a falsy value gives the empty array, a truthy one itself.
OrEmpty(v) == IF v.kind = "undefined" THEN Arr(<<>>) ELSE v

\* All sequences over S of length at most n.
SeqsUpTo(S, n) == UNION {[1..k -> S] : k \in 0..n}

\* The sequences of SeqsUpTo(S, n) without a repeated element.
DistinctSeqsUpTo(S, n) ==
    {q \in SeqsUpTo(S, n) : \A i, j \in 1..Len(q) : i # j => q[i] # q[j]}

-----------------------------------------------------------------------------
(* Bounds and input domains of the taxonomy functions *)

MaxTags == 2
MaxSubtags == 2

PrimaryNames == {"UI", "Infra"}
SubtagNames == {"Forms", "Tables", "Charts"}
TagDescriptions == {"about the tag", Undefined}

Subtags == {[name |-> n, description |-> "about " \o n] : n \in SubtagNames}

\* A subtag's name is unique within its parent's list (the data model).
SubtagLists ==
    {q \in SeqsUpTo(Subtags, MaxSubtags) :
        \A i, j \in 1..Len(q) : i # j => q[i].name # q[j].name}

\* A taxonomy tag; its subtags array may be missing in a malformed document.
Tags ==
    [name : PrimaryNames,
     description : TagDescriptions,
     subtags : {Arr(q) : q \in SubtagLists} \cup {Missing}]

-----------------------------------------------------------------------------
(* hooks/useData: flattenTags *)

OtherRow(tag) ==
    [primaryTag |-> tag.name,
     secondaryTag |-> "Other",
     primaryDescription |-> tag.description,
     secondaryDescription |-> tag.description]

SubtagRow(tag, subtag) ==
    [primaryTag |-> tag.name,
     secondaryTag |-> subtag.name,
     primaryDescription |-> tag.description,
     secondaryDescription |-> subtag.description]

\* The inner loop: for (const subtag of tag.subtags) rows.push(...)
RECURSIVE pushSubtagRows(_, _, _, _)
pushSubtagRows(tag, subtags, j, rows) ==
    IF j > Len(subtags) THEN rows
    ELSE pushSubtagRows(tag, subtags, j + 1,
                        Append(rows, SubtagRow(tag, subtags[j])))

\* The outer loop from tag i on, rows being what has been pushed so far.
\* tag.subtags.length on a missing subtags raises a TypeError.
RECURSIVE flattenFrom(_, _, _)
flattenFrom(ts, i, rows) ==
    IF i > Len(ts) THEN [threw |-> FALSE, rows |-> rows]
    ELSE IF ~IsArray(ts[i].subtags) THEN [threw |-> TRUE, rows |-> <<>>]
    ELSE IF Len(ts[i].subtags.items) = 0
         THEN flattenFrom(ts, i + 1, Append(rows, OtherRow(ts[i])))
         ELSE flattenFrom(ts, i + 1,
                          pushSubtagRows(ts[i], ts[i].subtags.items, 1, rows))

\* flattenTags with the "Other" branch lost: a tag without subtags gives no row.
RECURSIVE flattenFromNoOther(_, _, _)
flattenFromNoOther(ts, i, rows) ==
    IF i > Len(ts) THEN [threw |-> FALSE, rows |-> rows]
    ELSE IF ~IsArray(ts[i].subtags) THEN [threw |-> TRUE, rows |-> <<>>]
    ELSE flattenFromNoOther(ts, i + 1,
                            pushSubtagRows(ts[i], ts[i].subtags.items, 1, rows))

flattenTags_NoOther(ts) == flattenFromNoOther(ts, 1, <<>>)

flattenTags(ts) == flattenFrom(ts, 1, <<>>)

-----------------------------------------------------------------------------
(* hooks/useData: getPrimaryTags, getSubtags *)

RECURSIVE mapName(_, _)
mapName(q, i) == IF i > Len(q) THEN <<>> ELSE <<q[i].name>> \o mapName(q, i + 1)

getPrimaryTags(ts) == [threw |-> FALSE, names |-> mapName(ts, 1)]

\* tags.find(t => t.name === primaryTag): the index of the first match, 0 for
\* undefined.
RECURSIVE findTag(_, _, _)
findTag(ts, primary, i) ==
    IF i > Len(ts) THEN 0
    ELSE IF ts[i].name = primary THEN i
    ELSE findTag(ts, primary, i + 1)

\* getSubtags without the line for a tag that has no subtags.
getSubtags_NoOther(ts, primary) ==
    LET i == findTag(ts, primary, 1)
    IN  IF i = 0 THEN [threw |-> FALSE, names |-> <<>>]
        ELSE IF ~IsArray(ts[i].subtags) THEN [threw |-> TRUE, names |-> <<>>]
        ELSE [threw |-> FALSE, names |-> mapName(ts[i].subtags.items, 1)]

getSubtags(ts, primary) ==
    LET i == findTag(ts, primary, 1)
    IN  IF i = 0 THEN [threw |-> FALSE, names |-> <<>>]
        ELSE IF ~IsArray(ts[i].subtags) THEN [threw |-> TRUE, names |-> <<>>]
        ELSE IF Len(ts[i].subtags.items) = 0
             THEN [threw |-> FALSE, names |-> <<"Other">>]
             ELSE [threw |-> FALSE, names |-> mapName(ts[i].subtags.items, 1)]

-----------------------------------------------------------------------------
(* Bounds and input domains of the product functions *)

MaxFeatures == 2       \* features of a product
MaxFeatureTags == 2    \* tags carried by the features of a product, in total

\* A feature's subtag names are free text: "Other" may be written out.
FeatureSubtagNames == {"Forms", "Other"}

\* Every list of feature subtags without a repeated name.
FeatureSubtagLists ==
    DistinctSeqsUpTo({[name |-> n] : n \in FeatureSubtagNames},
                     Cardinality(FeatureSubtagNames))

\* A FeatureTag; its subtags may be missing, or may not be an array.
FeatureTags ==
    [name : PrimaryNames,
     subtags : {Arr(q) : q \in FeatureSubtagLists} \cup {Missing, NoneString}]

\* Feature i of a product; the title tells the features of a product apart.
MakeFeature(i, time, tagsField) ==
    [title |-> "feature " \o ToString(i),
     description |-> "",
     time |-> time,
     tags |-> tagsField]

MakeProduct(name, featuresField) ==
    [name |-> name, url |-> "", features |-> featuresField]

\* The shape of a feature list: for each feature, whether its tags field is an
\* array, undefined or the string "None", and how many tags the array holds.
TagsShapes ==
    {c \in [kind : {"array", "undefined", "string"}, count : 0..MaxFeatureTags] :
        c.kind # "array" => c.count = 0}

RECURSIVE CountBefore(_, _)
CountBefore(shape, i) ==
    IF i <= 1 THEN 0 ELSE CountBefore(shape, i - 1) + shape[i - 1].count

\* The shapes of n features that hold t tags in total.
FeatureShapes(n, t) ==
    {shape \in [1..n -> TagsShapes] : CountBefore(shape, n + 1) = t}

\* The feature list of a shape, its tags taken in order from the list all.
FeaturesOfShape(shape, all) ==
    [i \in 1..Len(shape) |->
        MakeFeature(i, "2024-03-05",
            IF shape[i].kind = "array"
            THEN Arr(SubSeq(all, CountBefore(shape, i) + 1,
                                 CountBefore(shape, i) + shape[i].count))
            ELSE [kind |-> shape[i].kind, items |-> <<>>])]

SecondaryNames == FeatureSubtagNames

-----------------------------------------------------------------------------
(* hooks/useData: productHasTag *)

\* subtags.some(st => st.name === secondaryTag)
SomeSubtagNamed(subtags, secondary) ==
    \E k \in 1..Len(subtags) : subtags[k].name = secondary

\* The loop over a feature's tags without the "Other" case: "Other" is looked
\* up among the subtag names like any other name.
RECURSIVE hasTagInTags_OtherByName(_, _, _, _)
hasTagInTags_OtherByName(ftags, j, primary, secondary) ==
    IF j > Len(ftags) THEN "next"
    ELSE IF ftags[j].name # primary
         THEN hasTagInTags_OtherByName(ftags, j + 1, primary, secondary)
    ELSE LET subtags == OrEmpty(ftags[j].subtags)
         IN  IF ~IsArray(subtags) THEN "throw"
             ELSE IF SomeSubtagNamed(subtags.items, secondary) THEN "true"
             ELSE hasTagInTags_OtherByName(ftags, j + 1, primary, secondary)

\* The loop over a feature's tags from tag j on: "true" on the first return
\* true, "throw" when subtags.some is called on a value that is no array, and
\* "next" when the loop ends without returning.
RECURSIVE hasTagInTags(_, _, _, _)
hasTagInTags(ftags, j, primary, secondary) ==
    IF j > Len(ftags) THEN "next"
    ELSE IF ftags[j].name # primary
         THEN hasTagInTags(ftags, j + 1, primary, secondary)
    ELSE LET subtags == OrEmpty(ftags[j].subtags)
         IN  IF secondary = "Other"
             THEN IF IsArray(subtags) /\ Len(subtags.items) = 0
                  THEN "true"
                  ELSE hasTagInTags(ftags, j + 1, primary, secondary)
             ELSE IF ~IsArray(subtags) THEN "throw"
             ELSE IF SomeSubtagNamed(subtags.items, secondary) THEN "true"
             ELSE hasTagInTags(ftags, j + 1, primary, secondary)

\* A feature's tags taken as they are, without the Array.isArray guard.
TagsOf_Unguarded(feature) == feature.tags

\* const tags = Array.isArray(feature.tags) ? feature.tags : []
TagsOf(feature) == IF IsArray(feature.tags) THEN feature.tags ELSE Arr(<<>>)

\* The loop over the features from feature i on.  for (const tag of tags)
\* iterates an array, raises a TypeError on undefined, and on a string goes
\* through its characters, none of which has a name.
RECURSIVE hasTagInFeatures(_, _, _, _)
hasTagInFeatures(features, i, primary, secondary) ==
    IF i > Len(features) THEN "false"
    ELSE LET ftags == TagsOf(features[i])
             r == IF ftags.kind = "undefined" THEN "throw"
                  ELSE IF ftags.kind = "string" THEN "next"
                  ELSE hasTagInTags(ftags.items, 1, primary, secondary)
         IN  IF r = "next"
             THEN hasTagInFeatures(features, i + 1, primary, secondary)
             ELSE r

\* Iterating product.features raises a TypeError when it is undefined.
productHasTag(prod, primary, secondary) ==
    IF ~IsArray(prod.features) THEN [threw |-> TRUE, has |-> FALSE]
    ELSE LET r == hasTagInFeatures(prod.features.items, 1, primary, secondary)
         IN  [threw |-> r = "throw", has |-> r = "true"]

-----------------------------------------------------------------------------
(* hooks/useData: getProductTagFeatures *)

\* tags.some looking at the first tag of the feature only.
someTagMatches_FirstTagOnly(ftags, j, primary, secondary) ==
    IF j > Len(ftags) \/ ftags[j].name # primary THEN "false"
    ELSE LET subtags == OrEmpty(ftags[j].subtags)
         IN  IF secondary = "Other"
             THEN IF IsArray(subtags) /\ Len(subtags.items) = 0
                  THEN "true" ELSE "false"
             ELSE IF ~IsArray(subtags) THEN "throw"
             ELSE IF SomeSubtagNamed(subtags.items, secondary) THEN "true"
             ELSE "false"

\* tags.some(tag => ...) from tag j on: "true", "false" or "throw".
RECURSIVE someTagMatches(_, _, _, _)
someTagMatches(ftags, j, primary, secondary) ==
    IF j > Len(ftags) THEN "false"
    ELSE IF ftags[j].name # primary
         THEN someTagMatches(ftags, j + 1, primary, secondary)
    ELSE LET subtags == OrEmpty(ftags[j].subtags)
         IN  IF secondary = "Other"
             THEN IF IsArray(subtags) /\ Len(subtags.items) = 0
                  THEN "true"
                  ELSE someTagMatches(ftags, j + 1, primary, secondary)
             ELSE IF ~IsArray(subtags) THEN "throw"
             ELSE IF SomeSubtagNamed(subtags.items, secondary) THEN "true"
             ELSE someTagMatches(ftags, j + 1, primary, secondary)

\* product.features.filter(...) from feature i on, kept being the features
\* accepted so far; a TypeError in the callback ends the filter.  tags.some
\* exists on arrays only.
RECURSIVE filterFeatures(_, _, _, _, _)
filterFeatures(features, i, primary, secondary, kept) ==
    IF i > Len(features) THEN [threw |-> FALSE, features |-> kept]
    ELSE LET ftags == TagsOf(features[i])
             r == IF ~IsArray(ftags) THEN "throw"
                  ELSE someTagMatches(ftags.items, 1, primary, secondary)
         IN  IF r = "throw" THEN [threw |-> TRUE, features |-> <<>>]
             ELSE filterFeatures(features, i + 1, primary, secondary,
                                 IF r = "true" THEN Append(kept, features[i])
                                 ELSE kept)

getProductTagFeatures(prod, primary, secondary) ==
    IF ~IsArray(prod.features) THEN [threw |-> TRUE, features |-> <<>>]
    ELSE filterFeatures(prod.features.items, 1, primary, secondary, <<>>)

-----------------------------------------------------------------------------
(* The JavaScript engine: new Date(string) *)

(* A Date is [nan, time]: nan for an Invalid Date, whose getTime() is NaN, and
   time for getTime() counted in hours (getTime() / 3600000), which keeps the
   values inside TLC's integers.  Every date built here falls on a whole hour.

   What new Date(string) does with a string that is not in the ISO format is
   left to the engine by ECMAScript.  The engine is [lenient, utcOffset]:
   a lenient engine (V8) reads "2024-3-5" as local midnight and lets a day
   beyond the month's end run into the next month; a strict one answers
   Invalid Date to both.  utcOffset is the local zone's offset east of UTC in
   hours.  Where the engine also sorts, its record has the field sort for the
   algorithm of its Array.prototype.sort. *)

Digits == <<"0", "1", "2", "3", "4", "5", "6", "7", "8", "9">>

IsDigit(c) == \E d \in 1..10 : Digits[d] = c

DigitValue(c) == (CHOOSE d \in 1..10 : Digits[d] = c) - 1

CharAt(str, i) == SubSeq(str, i, i)

AllDigits(str, from, to) ==
    /\ to <= Len(str)
    /\ \A k \in from..to : IsDigit(CharAt(str, k))

RECURSIVE NumberAt(_, _, _)
NumberAt(str, from, to) ==
    IF to < from THEN 0
    ELSE 10 * NumberAt(str, from, to - 1) + DigitValue(CharAt(str, to))

IsLeapYear(y) == (y % 4 = 0 /\ y % 100 # 0) \/ y % 400 = 0

DaysInMonth(y, m) ==
    IF m = 2 THEN (IF IsLeapYear(y) THEN 29 ELSE 28)
    ELSE IF m \in {4, 6, 9, 11} THEN 30 ELSE 31

\* Days from 1970-01-01 to the civil date y-m-d (proleptic Gregorian).
DaysFromCivil(y, m, d) ==
    LET yy == IF m <= 2 THEN y - 1 ELSE y
        era == yy \div 400
        yoe == yy - era * 400
        mp == (m + 9) % 12
        doy == (153 * mp + 2) \div 5 + d - 1
        doe == yoe * 365 + yoe \div 4 - yoe \div 100 + doy
    IN  era * 146097 + doe - 719468

InvalidDate == [nan |-> TRUE, time |-> 0]

\* new Date(0)
EpochDate == [nan |-> FALSE, time |-> 0]

IsMonth(x) == x >= 1 /\ x <= 12

IsDay(x) == x >= 1 /\ x <= 31

\* What a lenient engine makes of three numbers joined by "-" that are not a
\* valid YYYY-MM-DD.  A first number that could be a day of the month makes
\* them month, day, year, any other first number year, month, day; a year
\* below 50 is of this century and one below 100 of the last; the date is in
\* local time, and a day beyond the end of the month runs into the next.
LegacyDate(first, second, third, eng) ==
    LET ymd == ~IsDay(first)
        year == IF ymd THEN first ELSE third
        month == IF ymd THEN second ELSE first
        day == IF ymd THEN third ELSE second
        fullYear == IF year <= 49 THEN year + 2000
                    ELSE IF year <= 99 THEN year + 1900 ELSE year
    IN  IF ~IsMonth(month) \/ ~IsDay(day) THEN InvalidDate
        ELSE [nan |-> FALSE,
              time |-> 24 * DaysFromCivil(fullYear, month, day) - eng.utcOffset]

\* new Date of the string of a year y of four digits, a month m and a day d
\* joined by "-"; isoFormat: m and d are written in two digits each.  A valid
\* YYYY-MM-DD is midnight UTC of that day, where a day beyond the end of the
\* month runs into the next month on a lenient engine and is invalid on a
\* strict one.  Any other string is invalid on a strict engine, and read as
\* three numbers by a lenient one.
NewDate(y, m, d, isoFormat, eng) ==
    IF isoFormat /\ IsMonth(m) /\ IsDay(d)
    THEN IF d > DaysInMonth(y, m) /\ ~eng.lenient THEN InvalidDate
         ELSE [nan |-> FALSE, time |-> 24 * DaysFromCivil(y, m, d)]
    ELSE IF eng.lenient THEN LegacyDate(y, m, d, eng)
         ELSE InvalidDate

-----------------------------------------------------------------------------
(* hooks/useData: parseDate *)

\* dateStr.match(/\d{4}-\d{2}-\d{2}/) succeeds at position i.
IsoMatchAt(str, i) ==
    /\ i + 9 <= Len(str)
    /\ AllDigits(str, i, i + 3)
    /\ CharAt(str, i + 4) = "-"
    /\ AllDigits(str, i + 5, i + 6)
    /\ CharAt(str, i + 7) = "-"
    /\ AllDigits(str, i + 8, i + 9)

\* dateStr.match(/(\d{1,2})\/(\d{1,2})\/(\d{4})/) succeeds at position i with
\* a first group of a digits and a second of b digits.
SlashMatchAt(str, i, a, b) ==
    /\ i + a + b + 5 <= Len(str)
    /\ AllDigits(str, i, i + a - 1)
    /\ CharAt(str, i + a) = "/"
    /\ AllDigits(str, i + a + 1, i + a + b)
    /\ CharAt(str, i + a + b + 1) = "/"
    /\ AllDigits(str, i + a + b + 2, i + a + b + 5)

\* The leftmost position at which the first pattern matches, 0 for none.
FirstIsoPosition(str) ==
    IF \E i \in 1..Len(str) : IsoMatchAt(str, i)
    THEN CHOOSE i \in 1..Len(str) :
            IsoMatchAt(str, i) /\ \A k \in 1..(i - 1) : ~IsoMatchAt(str, k)
    ELSE 0

SlashMatchesAt(str, i) ==
    \E a \in 1..2, b \in 1..2 : SlashMatchAt(str, i, a, b)

\* The leftmost position at which the second pattern matches, 0 for none.
FirstSlashPosition(str) ==
    IF \E i \in 1..Len(str) : SlashMatchesAt(str, i)
    THEN CHOOSE i \in 1..Len(str) :
            SlashMatchesAt(str, i)
                /\ \A k \in 1..(i - 1) : ~SlashMatchesAt(str, k)
    ELSE 0

\* \d{1,2} is greedy: two digits are tried before one, the first group first.
GreedyLengths(str, i) ==
    IF SlashMatchAt(str, i, 2, 2) THEN <<2, 2>>
    ELSE IF SlashMatchAt(str, i, 2, 1) THEN <<2, 1>>
    ELSE IF SlashMatchAt(str, i, 1, 2) THEN <<1, 2>>
    ELSE <<1, 1>>

\* parseDate with the second pattern lost: only YYYY-MM-DD is recognised.
parseDate_IsoOnly(dateStr, eng) ==
    LET iso == FirstIsoPosition(dateStr)
    IN  IF iso # 0
        THEN NewDate(NumberAt(dateStr, iso, iso + 3),
                     NumberAt(dateStr, iso + 5, iso + 6),
                     NumberAt(dateStr, iso + 8, iso + 9), TRUE, eng)
        ELSE EpochDate

\* A matched YYYY-MM-DD is handed to new Date as matched.  For M/D/YYYY the
\* string `${year}-${month}-${day}` is built from the groups as matched: it is
\* in the ISO format only when both groups have two digits.
parseDate(dateStr, eng) ==
    LET iso == FirstIsoPosition(dateStr)
        slash == FirstSlashPosition(dateStr)
    IN  IF iso # 0
        THEN NewDate(NumberAt(dateStr, iso, iso + 3),
                     NumberAt(dateStr, iso + 5, iso + 6),
                     NumberAt(dateStr, iso + 8, iso + 9), TRUE, eng)
        ELSE IF slash # 0
        THEN LET len == GreedyLengths(dateStr, slash)
                 a == len[1]
                 b == len[2]
                 month == NumberAt(dateStr, slash, slash + a - 1)
                 day == NumberAt(dateStr, slash + a + 1, slash + a + b)
                 year == NumberAt(dateStr, slash + a + b + 2,
                                  slash + a + b + 5)
             IN  NewDate(year, month, day, a = 2 /\ b = 2, eng)
        ELSE EpochDate

-----------------------------------------------------------------------------
(* hooks/useData: getTagFeatures *)

\* The loop over the products from product i on, results being what has been
\* pushed so far.
RECURSIVE collectFeatures(_, _, _, _, _)
collectFeatures(prods, i, primary, secondary, results) ==
    IF i > Len(prods) THEN [threw |-> FALSE, items |-> results]
    ELSE LET r == getProductTagFeatures(prods[i], primary, secondary)
         IN  IF r.threw THEN [threw |-> TRUE, items |-> <<>>]
             ELSE collectFeatures(prods, i + 1, primary, secondary,
                     results \o [k \in 1..Len(r.features) |->
                                    [product |-> prods[i],
                                     feature |-> r.features[k]]])

\* The comparator (a, b) => dateB.getTime() - dateA.getTime() on the parsed
\* dates of a and b, as sort reads it: a NaN counts as +0.
CompareDates(dateA, dateB) ==
    IF dateA.nan \/ dateB.nan THEN 0 ELSE dateB.time - dateA.time

(* results.sort(comparator).  With a date that is NaN among valid ones the
   comparator is not a consistent comparison function (it answers +0 for
   NaN against anything, so "compares equal" is not transitive) and
   ECMAScript leaves the order to the implementation.  The implementations
   are deterministic; the three below are the sorts of V8, SpiderMonkey and
   JavaScriptCore as they run on an array of this size.  Each works on the
   positions 1..n of the items, with dates[p] the parsed date of item p, and
   calls the comparator exactly where the implementation calls it. *)

Reverse(s) == [i \in 1..Len(s) |-> s[Len(s) + 1 - i]]

Smaller(a, b) == IF a < b THEN a ELSE b

\* V8 (array-sort.tq), CountAndMakeRun: the run goes on from position idx
\* while every element is in order after the one before it; a descending run
\* is strictly descending.  The result is the length of the run.
RECURSIVE RunLength(_, _, _, _)
RunLength(work, dates, idx, isDescending) ==
    IF idx > Len(work) THEN idx - 1
    ELSE LET order == CompareDates(dates[work[idx]], dates[work[idx - 1]])
         IN  IF (isDescending /\ order >= 0) \/ (~isDescending /\ order < 0)
             THEN idx - 1
             ELSE RunLength(work, dates, idx + 1, isDescending)

\* V8, CountAndMakeRun on an array of two elements or more: the run at the
\* start of the array, reversed in place when it is descending.
CountAndMakeRun(work, dates) ==
    LET isDescending == CompareDates(dates[work[2]], dates[work[1]]) < 0
        runLength == RunLength(work, dates, 3, isDescending)
    IN  [runLength |-> runLength,
         work |-> IF isDescending
                  THEN Reverse(SubSeq(work, 1, runLength))
                          \o SubSeq(work, runLength + 1, Len(work))
                  ELSE work]

\* V8, BinaryInsertionSort, the binary search: the number of elements of
\* work[left..right) the pivot goes behind, left and right counted from 0.
RECURSIVE InsertionPoint(_, _, _, _, _)
InsertionPoint(work, dates, pivot, left, right) ==
    IF left >= right THEN left
    ELSE LET mid == left + (right - left) \div 2
             order == CompareDates(dates[pivot], dates[work[mid + 1]])
         IN  IF order < 0
             THEN InsertionPoint(work, dates, pivot, left, mid)
             ELSE InsertionPoint(work, dates, pivot, mid + 1, right)

\* V8, BinaryInsertionSort: the first start elements are taken to be in
\* order, and each later element is moved to the place the binary search
\* finds for it among those before it.
RECURSIVE BinaryInsertionSort(_, _, _)
BinaryInsertionSort(work, dates, start) ==
    IF start >= Len(work) THEN work
    ELSE LET pivot == work[start + 1]
             left == InsertionPoint(work, dates, pivot, 0, start)
         IN  BinaryInsertionSort(
                 SubSeq(work, 1, left) \o <<pivot>>
                     \o SubSeq(work, left + 1, start)
                     \o SubSeq(work, start + 2, Len(work)),
                 dates, start + 1)

\* V8, ArrayTimSortImpl on an array shorter than 64 elements, for which the
\* minimal run length is the length of the array: one run, extended over the
\* whole array by binary insertion, and nothing to merge.
ArrayTimSort(n, dates) ==
    IF n < 2 THEN [i \in 1..n |-> i]
    ELSE LET run == CountAndMakeRun([i \in 1..n |-> i], dates)
         IN  BinaryInsertionSort(run.work, dates, run.runLength)

\* SpiderMonkey, insertion sort: the place of the item among the j elements
\* before it, found by passing every element the comparator puts after it.
RECURSIVE InsertionPlace(_, _, _, _)
InsertionPlace(work, dates, item, j) ==
    IF j = 0 \/ CompareDates(dates[work[j]], dates[item]) <= 0 THEN j
    ELSE InsertionPlace(work, dates, item, j - 1)

\* SpiderMonkey sorts a short array by insertion, from the element at
\* position i on.
RECURSIVE InsertionSort(_, _, _)
InsertionSort(work, dates, i) ==
    IF i > Len(work) THEN work
    ELSE LET item == work[i]
             j == InsertionPlace(work, dates, item, i - 1)
         IN  InsertionSort(
                 SubSeq(work, 1, j) \o <<item>> \o SubSeq(work, j + 1, i - 1)
                     \o SubSeq(work, i + 1, Len(work)),
                 dates, i + 1)

\* JavaScriptCore, merge: src[left..leftEnd) and src[right..rightEnd), counted
\* from 0, merged; the element on the right goes first only when the
\* comparator puts it before the one on the left.
RECURSIVE merge(_, _, _, _, _, _)
merge(src, dates, left, leftEnd, right, rightEnd) ==
    IF left >= leftEnd /\ right >= rightEnd THEN <<>>
    ELSE IF right < rightEnd
            /\ (left >= leftEnd
                  \/ CompareDates(dates[src[right + 1]],
                                  dates[src[left + 1]]) < 0)
         THEN <<src[right + 1]>>
                 \o merge(src, dates, left, leftEnd, right + 1, rightEnd)
         ELSE <<src[left + 1]>>
                 \o merge(src, dates, left + 1, leftEnd, right, rightEnd)

\* JavaScriptCore, one pass of mergeSort: neighbouring runs of the width
\* given are merged two by two, from srcIndex on.
RECURSIVE mergePass(_, _, _, _)
mergePass(src, dates, srcIndex, width) ==
    IF srcIndex >= Len(src) THEN <<>>
    ELSE LET leftEnd == Smaller(srcIndex + width, Len(src))
             rightEnd == Smaller(leftEnd + width, Len(src))
         IN  merge(src, dates, srcIndex, leftEnd, leftEnd, rightEnd)
                 \o mergePass(src, dates, srcIndex + 2 * width, width)

\* JavaScriptCore, mergeSort: bottom up, the width doubling from 1.
RECURSIVE mergeSort(_, _, _)
mergeSort(src, dates, width) ==
    IF width >= Len(src) THEN src
    ELSE mergeSort(mergePass(src, dates, 0, width), dates, 2 * width)

\* What the comparator makes of each item: parseDate of its time string.
RECURSIVE parsedDates(_, _)
parsedDates(items, eng) ==
    IF items = <<>> THEN <<>>
    ELSE <<parseDate(Head(items).feature.time, eng)>>
            \o parsedDates(Tail(items), eng)

\* results.sort(comparator) in the engine given: the items in the order its
\* sort leaves them in.
sortResults(items, eng) ==
    LET n == Len(items)
        dates == parsedDates(items, eng)
        order == IF eng.sort = "timsort" THEN ArrayTimSort(n, dates)
                 ELSE IF eng.sort = "insertion"
                      THEN InsertionSort([i \in 1..n |-> i], dates, 2)
                      ELSE mergeSort([i \in 1..n |-> i], dates, 1)
    IN  [i \in 1..n |-> items[order[i]]]

getTagFeatures(prods, primary, secondary, eng) ==
    LET r == collectFeatures(prods, 1, primary, secondary, <<>>)
    IN  IF r.threw THEN r
        ELSE [threw |-> FALSE, items |-> sortResults(r.items, eng)]

-----------------------------------------------------------------------------
(* The parts of the state a specification leaves alone *)

NoTagOut == [threw |-> FALSE, rows |-> <<>>, names |-> <<>>]

IdleTags ==
    /\ tags = <<>>
    /\ tagQuery = "UI"
    /\ tagCall = "none"
    /\ tagOut = NoTagOut

NoProdOut == [threw |-> FALSE, has |-> FALSE, features |-> <<>>]

IdleProduct ==
    /\ product = [name |-> "youware", url |-> "", features |-> Arr(<<>>)]
    /\ primaryTag = "UI"
    /\ secondaryTag = "Other"
    /\ prodCall = "none"
    /\ prodOut = NoProdOut

NoSortOut == [threw |-> FALSE, items |-> <<>>]

IdleSort ==
    /\ engine = [lenient |-> TRUE, utcOffset |-> 0, sort |-> "timsort"]
    /\ products = <<>>
    /\ sortCall = "none"
    /\ sortOut = NoSortOut

EmptyView == [crashed |-> FALSE, groups |-> <<>>]

IdleMatrix ==
    /\ matrixTags = <<>>
    /\ matrixProducts = <<>>
    /\ excludeTags = <<>>
    /\ expandedPrimaryTags = {}
    /\ configFetch = "pending"
    /\ matrixView = EmptyView

IdleViews ==
    /\ appScreen = "routes"
    /\ route = "matrix"
    /\ routeTag = ""
    /\ routeSecondary = ""
    /\ routeProduct = ""
    /\ tagsView = [crashed |-> FALSE, cards |-> <<>>]
    /\ detailView = [crashed |-> FALSE, primaryTag |-> "", subtags |-> <<>>]

IdleAdmin ==
    /\ localStorageToken = "<null>"
    /\ authToken = "<null>"
    /\ isAuthenticated = FALSE
    /\ scriptLogs = "empty"
    /\ requests = <<>>
    /\ lastResponse = [call |-> "none", status |-> "none"]
    /\ mounted = FALSE

IdlePoll ==
    /\ crawlStatus = [lastRun |-> "<null>", isRunning |-> FALSE]
    /\ summaryStatus = [lastRun |-> "<null>", isRunning |-> FALSE]
    /\ loops = <<>>
    /\ triggers = [task \in {"crawl", "summary"} |-> 0]
    /\ pollEvent = [kind |-> "none", task |-> "none", answer |-> "none",
                    alert |-> "none"]

IdleLists ==
    /\ featureProduct = "youware"
    /\ featurePage = 1
    /\ featureSearch = ""
    /\ featureTotal = 0
    /\ featuresShown = 0
    /\ listShown = [n \in {"others", "untagged", "features"} |->
                      [seq |-> 0, product |-> "", page |-> 0, search |-> ""]]
    /\ listLoading = [n \in {"others", "untagged", "features"} |-> FALSE]
    /\ listError = [n \in {"others", "untagged", "features"} |-> "<null>"]
    /\ listRequests = <<>>
    /\ listEvent = [list |-> "none", outcome |-> "none", seq |-> 0]
    /\ issued = 0

IdleCard ==
    /\ cardFeature = Arr(<<>>)
    /\ editedTags = <<>>
    /\ selectedPrimary = ""
    /\ selectedSubtag = ""
    /\ cardEvent = [op |-> "none", primary |-> "", subtag |-> "",
                    before |-> <<>>]

IdleLoad ==
    /\ hookTags = "initial"
    /\ hookProducts = <<>>
    /\ loading = TRUE
    /\ error = "<null>"
    /\ loadPhase = "unmounted"
    /\ loadTrigger = "none"
    /\ tagFetch = "idle"
    /\ productFetches = <<>>
    /\ settled = <<>>
    /\ assigned = 0

IdleDate ==
    /\ timeString = ""
    /\ dateEngine = [lenient |-> TRUE, utcOffset |-> 0]
    /\ hookDate = [called |-> FALSE, date |-> EpochDate]
    /\ pageDate = [called |-> FALSE, date |-> EpochDate]

\* Every part of the state but the part named is at rest.  The jobs run in an
\* authenticated console and so are the lists, so their parts set the session
\* as well.
IdleExcept(part) ==
    /\ IF part = "tags" THEN TRUE ELSE IdleTags
    /\ IF part = "product" THEN TRUE ELSE IdleProduct
    /\ IF part = "sort" THEN TRUE ELSE IdleSort
    /\ IF part = "matrix" THEN TRUE ELSE IdleMatrix
    /\ IdleViews
    /\ IF part \in {"admin", "poll", "lists"} THEN TRUE ELSE IdleAdmin
    /\ IF part = "poll" THEN TRUE ELSE IdlePoll
    /\ IF part = "lists" THEN TRUE ELSE IdleLists
    /\ IF part = "card" THEN TRUE ELSE IdleCard
    /\ IF part = "load" THEN TRUE ELSE IdleLoad
    /\ IF part = "date" THEN TRUE ELSE IdleDate

\* Every part of the state but the part named stays as it is.
UnchangedExcept(part) ==
    /\ IF part = "tags" THEN TRUE ELSE UNCHANGED tagVars
    /\ IF part = "product" THEN TRUE ELSE UNCHANGED prodVars
    /\ IF part = "sort" THEN TRUE ELSE UNCHANGED sortVars
    /\ IF part \in {"matrix", "views"} THEN TRUE ELSE UNCHANGED matrixVars
    /\ IF part = "views" THEN TRUE ELSE UNCHANGED viewVars
    /\ IF part \in {"admin", "poll", "lists", "views"} THEN TRUE
       ELSE UNCHANGED adminVars
    /\ IF part = "poll" THEN TRUE ELSE UNCHANGED pollVars
    /\ IF part = "lists" THEN TRUE ELSE UNCHANGED listVars
    /\ IF part = "card" THEN TRUE ELSE UNCHANGED cardVars
    /\ IF part = "load" THEN TRUE ELSE UNCHANGED loadVars
    /\ IF part = "date" THEN TRUE ELSE UNCHANGED dateVars

-----------------------------------------------------------------------------
(* The taxonomy functions applied to an arbitrary taxonomy *)

InitTags ==
    /\ \E n \in 0..MaxTags : tags \in [1..n -> Tags]
    /\ tagQuery \in PrimaryNames
    /\ tagCall = "none"
    /\ tagOut = NoTagOut
    /\ IdleExcept("tags")

CallFlattenTags ==
    /\ tagCall = "none"
    /\ tagCall' = "flattenTags"
    /\ LET r == flattenTags(tags)
       IN tagOut' = [threw |-> r.threw, rows |-> r.rows, names |-> <<>>]
    /\ UNCHANGED <<tags, tagQuery>>
    /\ UnchangedExcept("tags")

CallGetPrimaryTags ==
    /\ tagCall = "none"
    /\ tagCall' = "getPrimaryTags"
    /\ LET r == getPrimaryTags(tags)
       IN tagOut' = [threw |-> r.threw, rows |-> <<>>, names |-> r.names]
    /\ UNCHANGED <<tags, tagQuery>>
    /\ UnchangedExcept("tags")

CallGetSubtags ==
    /\ tagCall = "none"
    /\ tagCall' = "getSubtags"
    /\ LET r == getSubtags(tags, tagQuery)
       IN tagOut' = [threw |-> r.threw, rows |-> <<>>, names |-> r.names]
    /\ UNCHANGED <<tags, tagQuery>>
    /\ UnchangedExcept("tags")

NextTags == CallFlattenTags \/ CallGetPrimaryTags \/ CallGetSubtags

SpecTags == InitTags /\ [][NextTags]_vars

-----------------------------------------------------------------------------
(* The product functions applied to an arbitrary product and tag pair *)

\* Every product of at most MaxFeatures features carrying at most
\* MaxFeatureTags tags in total, and the product without a features array.
InitProduct ==
    /\ \/ \E t \in 0..MaxFeatureTags, n \in 0..MaxFeatures :
            \E all \in [1..t -> FeatureTags], shape \in FeatureShapes(n, t) :
                product = MakeProduct("youware", Arr(FeaturesOfShape(shape, all)))
       \/ product = MakeProduct("youware", Missing)
    /\ primaryTag \in PrimaryNames
    /\ secondaryTag \in SecondaryNames
    /\ prodCall = "none"
    /\ prodOut = NoProdOut
    /\ IdleExcept("product")

CallProductHasTag ==
    /\ prodCall = "none"
    /\ prodCall' = "productHasTag"
    /\ LET r == productHasTag(product, primaryTag, secondaryTag)
       IN prodOut' = [threw |-> r.threw, has |-> r.has, features |-> <<>>]
    /\ UNCHANGED <<product, primaryTag, secondaryTag>>
    /\ UnchangedExcept("product")

CallGetProductTagFeatures ==
    /\ prodCall = "none"
    /\ prodCall' = "getProductTagFeatures"
    /\ LET r == getProductTagFeatures(product, primaryTag, secondaryTag)
       IN prodOut' = [threw |-> r.threw, has |-> FALSE, features |-> r.features]
    /\ UNCHANGED <<product, primaryTag, secondaryTag>>
    /\ UnchangedExcept("product")

\* getTagFeatures([product], primaryTag, secondaryTag); the items it returns
\* are kept as features.
CallGetTagFeaturesOfProduct ==
    /\ prodCall = "none"
    /\ prodCall' = "getTagFeatures"
    /\ LET r == getTagFeatures(<<product>>, primaryTag, secondaryTag, engine)
       IN prodOut' = [threw |-> r.threw, has |-> FALSE, features |-> r.items]
    /\ UNCHANGED <<product, primaryTag, secondaryTag>>
    /\ UnchangedExcept("product")

NextProduct ==
    \/ CallProductHasTag \/ CallGetProductTagFeatures
    \/ CallGetTagFeaturesOfProduct

SpecProduct == InitProduct /\ [][NextProduct]_vars

-----------------------------------------------------------------------------
(* getTagFeatures applied to arbitrary products *)

MaxProducts == 2      \* products handed to getTagFeatures
MaxItems == 4         \* features of these products, in total
MaxTieItems == 7      \* the same, when the features are drawn from TieFeatures

\* hooks/useData: the product keys, in the order the products are loaded.
STORAGE_FILES ==
    <<"youware", "base44", "bolt", "lovable", "replit", "rocket", "trickle",
      "v0">>

\* Time strings: a date inside text, M/D/YYYY without and with leading
\* zeros, no date at all, a date before 1970, and a date of month 13.
TimeStrings ==
    {"2024-03-05 some text", "3/5/2024", "12/25/2023", "not a date",
     "1969-12-31", "2024-13-01"}

UtcOffsets == {-8, 0, 9}

\* A lenient engine in each of the zones, and a strict one, which never reads
\* a date as local time.
Engines ==
    {[lenient |-> TRUE, utcOffset |-> o] : o \in UtcOffsets}
        \cup {[lenient |-> FALSE, utcOffset |-> 0]}

\* The sorts an engine of that Date comes with.  A lenient Date is sorted by
\* ArrayTimSort (V8 since 7.0) or by insertion (V8 before 7.0, for arrays of up
\* to ten items, and a SpiderMonkey that reads "2024-3-5"); a strict Date by
\* insertion (a SpiderMonkey that does not) or by mergeSort (JavaScriptCore).
SortsOf(e) ==
    IF e.lenient THEN {"timsort", "insertion"} ELSE {"insertion", "merge"}

SortEngines ==
    {e \in [lenient : BOOLEAN, utcOffset : UtcOffsets,
            sort : {"timsort", "insertion", "merge"}] :
        /\ [lenient |-> e.lenient, utcOffset |-> e.utcOffset] \in Engines
        /\ e.sort \in SortsOf(e)}

\* A feature tagged UI > Forms with any of the time strings, or a feature
\* whose tags are the string "None".
SortFeatures ==
    {[time |-> ts, tags |-> Arr(<<[name |-> "UI",
                                    subtags |-> Arr(<<[name |-> "Forms"]>>)]>>)] :
        ts \in TimeStrings}
    \cup {[time |-> "2024-03-05 some text", tags |-> NoneString]}

\* Features tagged UI > Forms dated 2024-03-05 and 2023-12-25, and with a
\* date of month 13, which every engine makes an Invalid Date.
TieFeatures ==
    {f \in SortFeatures :
        /\ f.tags # NoneString
        /\ f.time \in {"2024-03-05 some text", "12/25/2023", "2024-13-01"}}

\* How t features are split over n products.
Splits(n, t) ==
    {c \in [1..n -> [count : 0..t]] : CountBefore(c, n + 1) = t}

ProductsOfSplit(split, all) ==
    [i \in 1..Len(split) |->
        LET before == CountBefore(split, i)
        IN  MakeProduct(STORAGE_FILES[i],
                Arr([k \in 1..split[i].count |->
                        MakeFeature(k, all[before + k].time,
                                    all[before + k].tags)]))]

InitSort ==
    /\ engine \in SortEngines
    /\ \/ \E t \in 0..MaxItems, n \in 0..MaxProducts :
             \E all \in [1..t -> SortFeatures], split \in Splits(n, t) :
                 products = ProductsOfSplit(split, all)
       \/ \E t \in (MaxItems + 1)..MaxTieItems :
             \E all \in [1..t -> TieFeatures], split \in Splits(1, t) :
                 products = ProductsOfSplit(split, all)
    /\ sortCall = "none"
    /\ sortOut = NoSortOut
    /\ IdleExcept("sort")

CallGetTagFeatures ==
    /\ sortCall = "none"
    /\ sortCall' = "getTagFeatures"
    /\ sortOut' = getTagFeatures(products, "UI", "Forms", engine)
    /\ UNCHANGED <<engine, products>>
    /\ UnchangedExcept("sort")

NextSort == CallGetTagFeatures

SpecSort == InitSort /\ [][NextSort]_vars

-----------------------------------------------------------------------------
(* parseDate of hooks/useData and its copy in pages/ProductDetailPage, applied
   to a time string *)

\* pages/ProductDetailPage: parseDate
pageParseDate(dateStr, eng) ==
    LET iso == FirstIsoPosition(dateStr)
        slash == FirstSlashPosition(dateStr)
    IN  IF iso # 0
        THEN NewDate(NumberAt(dateStr, iso, iso + 3),
                     NumberAt(dateStr, iso + 5, iso + 6),
                     NumberAt(dateStr, iso + 8, iso + 9), TRUE, eng)
        ELSE IF slash # 0
        THEN LET len == GreedyLengths(dateStr, slash)
                 a == len[1]
                 b == len[2]
                 month == NumberAt(dateStr, slash, slash + a - 1)
                 day == NumberAt(dateStr, slash + a + 1, slash + a + b)
                 year == NumberAt(dateStr, slash + a + b + 2,
                                  slash + a + b + 5)
             IN  NewDate(year, month, day, a = 2 /\ b = 2, eng)
        ELSE EpochDate

\* The time strings of the sorted lists, and: M/D/YYYY with leading zeros, the
\* string parseDate builds from 3/5/2024, both patterns in either order, a day
\* beyond the end of the month, a month and a day out of range, a date in
\* words, the empty string, and years below 100: with one digit in the day,
\* with a year that could be a day of the month, and in the ISO format with
\* and without a valid month.
DateStrings ==
    TimeStrings \cup
    {"03/05/2024", "2024-3-5", "on 1/2/2024, see 2023-11-30",
     "2023-11-30 (1/2/2024)", "2024-02-30", "13/45/2024", "March 5, 2024", "",
     "3/5/0049", "3/5/0050", "1/1/0000", "12/5/0031", "3/5/0007",
     "03/05/0049", "0005-13-01"}

NotCalled == [called |-> FALSE, date |-> EpochDate]

InitDate ==
    /\ timeString \in DateStrings
    /\ dateEngine \in Engines
    /\ hookDate = NotCalled
    /\ pageDate = NotCalled
    /\ IdleExcept("date")

CallParseDate ==
    /\ ~hookDate.called
    /\ hookDate' = [called |-> TRUE, date |-> parseDate(timeString, dateEngine)]
    /\ UNCHANGED <<timeString, dateEngine, pageDate>>
    /\ UnchangedExcept("date")

CallPageParseDate ==
    /\ ~pageDate.called
    /\ pageDate' = [called |-> TRUE, date |-> pageParseDate(timeString, dateEngine)]
    /\ UNCHANGED <<timeString, dateEngine, hookDate>>
    /\ UnchangedExcept("date")

NextDate == CallParseDate \/ CallPageParseDate

SpecDate == InitDate /\ [][NextDate]_vars

-----------------------------------------------------------------------------
(* pages/MatrixPage: the derived rows and the rendered table *)

\* array.includes(x)
Includes(q, x) == \E i \in 1..Len(q) : q[i] = x

\* tags.filter(tag => !excludeTags.includes(tag.name))
filteredTags(ts, excluded) ==
    SelectSeq(ts, LAMBDA tag : ~Includes(excluded, tag.name))

\* products.some(product => productHasTag(product, ...)) from product k on:
\* it stops at the first product that has the tag.
RECURSIVE hasAnyProduct(_, _, _)
hasAnyProduct(prods, k, row) ==
    IF k > Len(prods) THEN "false"
    ELSE LET r == productHasTag(prods[k], row.primaryTag, row.secondaryTag)
         IN  IF r.threw THEN "throw"
             ELSE IF r.has THEN "true"
             ELSE hasAnyProduct(prods, k + 1, row)

\* allRows.filter(row => ...) from row i on, kept being the rows passed so far.
RECURSIVE filterRows(_, _, _, _, _)
filterRows(allRows, i, excluded, prods, kept) ==
    IF i > Len(allRows) THEN [threw |-> FALSE, rows |-> kept]
    ELSE IF Includes(excluded, allRows[i].secondaryTag)
         THEN filterRows(allRows, i + 1, excluded, prods, kept)
    ELSE LET r == hasAnyProduct(prods, 1, allRows[i])
         IN  IF r = "throw" THEN [threw |-> TRUE, rows |-> <<>>]
             ELSE filterRows(allRows, i + 1, excluded, prods,
                     IF r = "true" THEN Append(kept, allRows[i]) ELSE kept)

tagRows(ts, excluded, prods) ==
    LET allRows == flattenTags(filteredTags(ts, excluded))
    IN  IF allRows.threw THEN [threw |-> TRUE, rows |-> <<>>]
        ELSE filterRows(allRows.rows, 1, excluded, prods, <<>>)

\* The keys of the Map, in the order of their first row.
RECURSIVE groupKeys(_, _, _)
groupKeys(rows, i, keys) ==
    IF i > Len(rows) THEN keys
    ELSE groupKeys(rows, i + 1,
            IF Includes(keys, rows[i].primaryTag) THEN keys
            ELSE Append(keys, rows[i].primaryTag))

groupedRows(rows) ==
    LET keys == groupKeys(rows, 1, <<>>)
    IN  [g \in 1..Len(keys) |->
            [primaryTag |-> keys[g],
             rows |-> SelectSeq(rows, LAMBDA row : row.primaryTag = keys[g])]]

\* The cell of a product in a row with the secondary tag left out of the
\* question: any tag of that primary name marks the cell.
hasTag_PrimaryOnly(prod, row) ==
    \E i \in 1..Len(prod.features.items) :
        LET ftags == TagsOf(prod.features.items[i])
        IN  \E j \in 1..Len(ftags.items) : ftags.items[j].name = row.primaryTag

\* const hasTag = productHasTag(product, row.primaryTag, row.secondaryTag)
hasTag(prod, row) ==
    productHasTag(prod, row.primaryTag, row.secondaryTag).has

\* rows.filter(row => productHasTag(product, ...)).length for every product;
\* nothing stops it early, so any call that throws makes it throw.
subtagCounts(prods, rows) ==
    [threw |->
        \E k \in 1..Len(prods), r \in 1..Len(rows) :
            productHasTag(prods[k], rows[r].primaryTag,
                          rows[r].secondaryTag).threw,
     counts |->
        [k \in 1..Len(prods) |->
            Cardinality({r \in 1..Len(rows) :
                productHasTag(prods[k], rows[r].primaryTag,
                              rows[r].secondaryTag).has})]]

\* One group of the table body: collapsed, a single line with the count of
\* each product; expanded, a line for each row with a cell for each product.
PrimaryTagGroup(primary, rows, prods, isExpanded) ==
    LET sc == subtagCounts(prods, rows)
    IN  [threw |-> sc.threw,
         primaryTag |-> primary,
         isExpanded |-> isExpanded,
         rows |-> rows,
         counts |-> IF isExpanded \/ sc.threw THEN <<>> ELSE sc.counts,
         cells |-> IF isExpanded /\ ~sc.threw
                   THEN [r \in 1..Len(rows) |->
                            [k \in 1..Len(prods) |-> hasTag(prods[k], rows[r])]]
                   ELSE <<>>]

CrashedView == [crashed |-> TRUE, groups |-> <<>>]

\* A render of the page; an exception in it takes the page down.
MatrixPage(ts, prods, excluded, expanded) ==
    LET tr == tagRows(ts, excluded, prods)
        groups == groupedRows(tr.rows)
        body == [g \in 1..Len(groups) |->
                    PrimaryTagGroup(groups[g].primaryTag, groups[g].rows, prods,
                                    groups[g].primaryTag \in expanded)]
    IN  IF tr.threw \/ \E g \in 1..Len(body) : body[g].threw
        THEN CrashedView
        ELSE [crashed |-> FALSE, groups |-> body]

-----------------------------------------------------------------------------
(* MatrixPage over an arbitrary taxonomy and arbitrary loaded products *)

\* The taxonomy of the matrix: tags of distinct names, their subtags named
\* Forms or Tables; "Other" is never the name of a subtag of the taxonomy.
MatrixTags ==
    {t \in Tags :
        /\ t.description = Undefined
        /\ \A i \in 1..Len(t.subtags.items) :
              t.subtags.items[i].name \in {"Forms", "Tables"}}

MatrixTaxonomies(n) ==
    {q \in [1..n -> MatrixTags] :
        \A i, j \in 1..n : i # j => q[i].name # q[j].name}

\* The tags field of a feature of the matrix: no array, or an array of at
\* most one tag with at most one subtag.
MatrixTagsFields ==
    {Arr(<<t>>) : t \in {u \in FeatureTags : Len(u.subtags.items) <= 1}}
        \cup {Arr(<<>>), NoneString}

MatrixFeatures == [time : {"2024-03-05"}, tags : MatrixTagsFields]

\* What admin_config.json may list under exclude_tags.
ExcludeLists == {<<"UI">>, <<"Forms">>, <<"Other">>}

\* The first render: nothing excluded, nothing expanded.  The products are the
\* loader's, each with a features array.
InitMatrix ==
    /\ \E n \in 0..MaxTags : matrixTags \in MatrixTaxonomies(n)
    /\ \E t \in 0..MaxFeatures, n \in 0..MaxProducts :
          \E all \in [1..t -> MatrixFeatures], split \in Splits(n, t) :
              matrixProducts = ProductsOfSplit(split, all)
    /\ excludeTags = <<>>
    /\ expandedPrimaryTags = {}
    /\ configFetch = "pending"
    /\ matrixView = MatrixPage(matrixTags, matrixProducts, <<>>, {})
    /\ IdleExcept("matrix")

\* The effect that loads the excluded tags, run after the first render: the
\* list of the configuration replaces the state; a failed fetch, a response
\* that is not ok and a configuration without the list leave it alone.
LoadExcludeTags ==
    /\ configFetch = "pending"
    /\ ~matrixView.crashed
    /\ configFetch' = "settled"
    /\ \/ \E list \in ExcludeLists : excludeTags' = list
       \/ UNCHANGED excludeTags
    /\ matrixView' = MatrixPage(matrixTags, matrixProducts, excludeTags',
                                expandedPrimaryTags)
    /\ UNCHANGED <<matrixTags, matrixProducts, expandedPrimaryTags>>
    /\ UnchangedExcept("matrix")

\* A click on the first line of a group.
togglePrimaryTag(primary) ==
    /\ ~matrixView.crashed
    /\ \E g \in 1..Len(matrixView.groups) :
          matrixView.groups[g].primaryTag = primary
    /\ expandedPrimaryTags' =
          IF primary \in expandedPrimaryTags
          THEN expandedPrimaryTags \ {primary}
          ELSE expandedPrimaryTags \cup {primary}
    /\ matrixView' = MatrixPage(matrixTags, matrixProducts, excludeTags,
                                expandedPrimaryTags')
    /\ UNCHANGED <<matrixTags, matrixProducts, excludeTags, configFetch>>
    /\ UnchangedExcept("matrix")

TogglePrimaryTag == \E primary \in PrimaryNames : togglePrimaryTag(primary)

expandAll ==
    /\ ~matrixView.crashed
    /\ expandedPrimaryTags' =
          {matrixView.groups[g].primaryTag : g \in 1..Len(matrixView.groups)}
    /\ matrixView' = MatrixPage(matrixTags, matrixProducts, excludeTags,
                                expandedPrimaryTags')
    /\ UNCHANGED <<matrixTags, matrixProducts, excludeTags, configFetch>>
    /\ UnchangedExcept("matrix")

collapseAll ==
    /\ ~matrixView.crashed
    /\ expandedPrimaryTags' = {}
    /\ matrixView' = MatrixPage(matrixTags, matrixProducts, excludeTags,
                                expandedPrimaryTags')
    /\ UNCHANGED <<matrixTags, matrixProducts, excludeTags, configFetch>>
    /\ UnchangedExcept("matrix")

NextMatrix == LoadExcludeTags \/ TogglePrimaryTag \/ expandAll \/ collapseAll

SpecMatrix == InitMatrix /\ [][NextMatrix]_vars

-----------------------------------------------------------------------------
(* pages/TagsPage, TagDetailPage and the routes of App *)

\* The length of what getTagFeatures returned, unless it threw.
lengthOf(r) == [threw |-> r.threw, length |-> Len(r.items)]

\* getTagFeatures(products, primary, st).length: sorting the matches does not
\* change their number.
featuresLength(prods, primary, st) ==
    lengthOf(collectFeatures(prods, 1, primary, st, <<>>))

\* features.length > 0
isUsed(n) ==
    IF n.threw THEN "throw" ELSE IF n.length > 0 THEN "true" ELSE "false"

\* The filter of the Tags page without its first line: a subtag is kept
\* whenever some product uses it.
subtagKept_UsedOnly(excluded, prods, primary, st) ==
    isUsed(featuresLength(prods, primary, st))

\* allSubtags.filter(st => { if (excludeTags.includes(st)) return false;
\*                           return getTagFeatures(...).length > 0 })
subtagKept(excluded, prods, primary, st) ==
    IF Includes(excluded, st) THEN "false"
    ELSE isUsed(featuresLength(prods, primary, st))

\* The filter from subtag i on, kept being the subtags passed so far and r the
\* answer of the filter's function for subtag i.
RECURSIVE filterSubtags(_, _, _, _, _, _)
RECURSIVE filterSubtag(_, _, _, _, _, _, _)
filterSubtag(all, i, excluded, prods, primary, kept, r) ==
    IF r = "throw" THEN [threw |-> TRUE, names |-> <<>>]
    ELSE filterSubtags(all, i + 1, excluded, prods, primary,
                       IF r = "true" THEN Append(kept, all[i]) ELSE kept)

filterSubtags(all, i, excluded, prods, primary, kept) ==
    IF i > Len(all) THEN [threw |-> FALSE, names |-> kept]
    ELSE filterSubtag(all, i, excluded, prods, primary, kept,
                      subtagKept(excluded, prods, primary, all[i]))

\* subtags.reduce((sum, st) => sum + getTagFeatures(...).length, 0) from
\* subtag i on; the filter has made the same calls, none of which threw.
RECURSIVE totalFeatures(_, _, _, _)
totalFeatures(names, i, prods, primary) ==
    IF i > Len(names) THEN 0
    ELSE featuresLength(prods, primary, names[i]).length
            + totalFeatures(names, i + 1, prods, primary)

\* const subtags = allSubtags.filter(...)
subtagsOf(allSubtags, excluded, prods, primary) ==
    IF allSubtags.threw THEN [threw |-> TRUE, names |-> <<>>]
    ELSE filterSubtags(allSubtags.names, 1, excluded, prods, primary, <<>>)

\* What the card shows: the name of the tag, the number of the subtags and
\* the number of their features.
cardOf(tag, subtags, prods) ==
    [threw |-> subtags.threw,
     name |-> tag.name,
     subtags |-> subtags.names,
     subtagCount |-> Len(subtags.names),
     totalFeatures |-> totalFeatures(subtags.names, 1, prods, tag.name)]

\* The card of a tag of filteredTags.
TagCard(ts, tag, excluded, prods) ==
    cardOf(tag, subtagsOf(getSubtags(ts, tag.name), excluded, prods, tag.name),
           prods)

NoCards == [crashed |-> FALSE, cards |-> <<>>]
CrashedCards == [crashed |-> TRUE, cards |-> <<>>]

\* filteredTags.map(tag => ...) from tag i on, cards being the cards made so
\* far and card the card of tag i.
RECURSIVE tagCards(_, _, _, _, _, _)
RECURSIVE addCard(_, _, _, _, _, _, _)
addCard(ts, shown, i, excluded, prods, cards, card) ==
    IF card.threw THEN CrashedCards
    ELSE tagCards(ts, shown, i + 1, excluded, prods, Append(cards, card))

tagCards(ts, shown, i, excluded, prods, cards) ==
    IF i > Len(shown) THEN [crashed |-> FALSE, cards |-> cards]
    ELSE addCard(ts, shown, i, excluded, prods, cards,
                 TagCard(ts, shown[i], excluded, prods))

\* A render of the Tags page: a card for every tag of filteredTags.
TagsPage(ts, prods, excluded) ==
    tagCards(ts, filteredTags(ts, excluded), 1, excluded, prods, <<>>)

NoDetail == [crashed |-> FALSE, primaryTag |-> "", subtags |-> <<>>]
CrashedDetail == [crashed |-> TRUE, primaryTag |-> "", subtags |-> <<>>]

\* subtags.map(subtag => ...) from subtag i on, cards being the cards made so
\* far and n the number of the features of subtag i.
RECURSIVE subtagCards(_, _, _, _, _)
RECURSIVE addSubtagCard(_, _, _, _, _, _)
addSubtagCard(subtags, i, prods, primary, cards, n) ==
    IF n.threw THEN CrashedDetail
    ELSE subtagCards(subtags, i + 1, prods, primary,
                     Append(cards, [name |-> subtags[i], features |-> n.length]))

subtagCards(subtags, i, prods, primary, cards) ==
    IF i > Len(subtags)
    THEN [crashed |-> FALSE, primaryTag |-> primary, subtags |-> cards]
    ELSE addSubtagCard(subtags, i, prods, primary, cards,
                       featuresLength(prods, primary, subtags[i]))

\* const subtags = allSubtags.filter(st => !excludeTags.includes(st)), and a
\* card for each of them under the heading.
detailOf(allSubtags, prods, primary, excluded) ==
    IF allSubtags.threw THEN CrashedDetail
    ELSE subtagCards(SelectSeq(allSubtags.names,
                               LAMBDA st : ~Includes(excluded, st)),
                     1, prods, primary, <<>>)

\* A render of /tags/:primaryTag: the heading is the tag of the address, and
\* there is a card for every subtag of it that is not excluded.
TagDetailPage(ts, prods, primary, excluded) ==
    detailOf(getSubtags(ts, primary), prods, primary, excluded)

\* An address of the application: the route and its parameters.
Target(to, primary, secondary, prod) ==
    [to |-> to, primaryTag |-> primary, secondaryTag |-> secondary,
     product |-> prod]

\* The page of a route is on the screen: App returns the routes, and the
\* address matches the route.
OnScreen(page) == appScreen = "routes" /\ route = page

\* The address in the address bar.
Here == Target(route, routeTag, routeSecondary, routeProduct)

\* products.find(p => p.name === decodedProduct): the index of the first
\* product of that name, 0 when there is none.
findProduct(prods, name) ==
    IF \E k \in 1..Len(prods) : prods[k].name = name
    THEN CHOOSE k \in 1..Len(prods) :
            /\ prods[k].name = name
            /\ \A j \in 1..(k - 1) : prods[j].name # name
    ELSE 0

\* The names of a list of tags.
ChipNames(items) == {items[j].name : j \in 1..Len(items)}

\* The tag chips of a list of features: every tag of every feature whose tags
\* are an array links to /tags/<name>.
TagChips(features) ==
    UNION {ChipNames(TagsOf(features[i]).items) : i \in 1..Len(features)}

\* A render of /tags/:primaryTag/:secondaryTag: the features of the pair, and
\* no card of a subtag.
TagFeaturesPage(prods, primary, secondary) ==
    IF featuresLength(prods, primary, secondary).threw THEN CrashedDetail
    ELSE [crashed |-> FALSE, primaryTag |-> primary, subtags |-> <<>>]

\* A render of TagDetailPage, which is the element of both routes of a tag.
DetailOf(to, ts, prods, primary, secondary, excluded) ==
    IF to = "tagFeatures" THEN TagFeaturesPage(prods, primary, secondary)
    ELSE TagDetailPage(ts, prods, primary, excluded)

\* What FeatureDetailPage gets from getProductTagFeatures for product k, the
\* product found for its address; it calls nothing when it found none.
featuresOfFound(prods, k, primary, secondary) ==
    IF k = 0 THEN [threw |-> FALSE, features |-> <<>>]
    ELSE getProductTagFeatures(prods[k], primary, secondary)

FeaturePageFeatures ==
    featuresOfFound(matrixProducts, findProduct(matrixProducts, routeProduct),
                    routeTag, routeSecondary)

\* A render that threw has taken the application down.
Crashed ==
    \/ matrixView.crashed \/ tagsView.crashed \/ detailView.crashed
    \/ appScreen = "routes" /\ route = "feature" /\ FeaturePageFeatures.threw

\* The links of a group of the Matrix: its first line links to the page of
\* the tag, and in an expanded group the secondary tag of a row to the
\* features of the pair and the mark of a cell to the features of the product
\* for the pair.
GroupLinks(group, prods) ==
    {Target("tagDetail", group.primaryTag, "", "")}
    \cup (IF ~group.isExpanded THEN {}
          ELSE {Target("tagFeatures", group.rows[r].primaryTag,
                       group.rows[r].secondaryTag, "") :
                  r \in 1..Len(group.rows)}
               \cup {Target("feature", group.rows[q[1]].primaryTag,
                            group.rows[q[1]].secondaryTag, prods[q[2]].name) :
                       q \in {c \in (1..Len(group.rows)) \X (1..Len(prods)) :
                                group.cells[c[1]][c[2]]}})

\* The links of the Matrix: the header links to the page of every product.
MatrixLinks ==
    {Target("product", "", "", matrixProducts[k].name) :
        k \in 1..Len(matrixProducts)}
    \cup UNION {GroupLinks(matrixView.groups[g], matrixProducts) :
                  g \in 1..Len(matrixView.groups)}

\* The links to the products of the features listed.
ProductLinksFrom(items) ==
    {Target("product", "", "", items[i].product.name) : i \in 1..Len(items)}

\* The links of TagDetailPage.  Without a secondary tag: Tags, and a card for
\* every subtag shown.  With one: Tags, the primary tag, and the product of
\* every feature listed.
TagDetailLinks ==
    IF route = "tagDetail"
    THEN {Target("tags", "", "", "")}
         \cup {Target("tagFeatures", routeTag, detailView.subtags[c].name, "") :
                 c \in 1..Len(detailView.subtags)}
    ELSE {Target("tags", "", "", ""), Target("tagDetail", routeTag, "", "")}
         \cup ProductLinksFrom(collectFeatures(matrixProducts, 1, routeTag,
                                         routeSecondary, <<>>).items)

\* The links of ProductDetailPage for product k, the product found for its
\* address: Products, and the tag chips of the features of the product.
ProductLinksOf(prods, k) ==
    {Target("products", "", "", "")}
    \cup (IF k = 0 THEN {}
          ELSE {Target("tagDetail", name, "", "") :
                  name \in TagChips(prods[k].features.items)})

ProductLinks ==
    ProductLinksOf(matrixProducts, findProduct(matrixProducts, routeProduct))

\* The links of FeatureDetailPage for product k: Matrix, the product, the
\* primary tag, the tag chips of the features listed, and the features of the
\* pair.
FeatureLinksOf(prods, k, primary, secondary) ==
    {Target("matrix", "", "", "")}
    \cup (IF k = 0 THEN {}
          ELSE {Target("product", "", "", prods[k].name),
                Target("tagDetail", primary, "", ""),
                Target("tagFeatures", primary, secondary, "")}
               \cup {Target("tagDetail", name, "", "") :
                       name \in TagChips(
                           getProductTagFeatures(prods[k], primary,
                                                 secondary).features)})

FeatureLinks ==
    FeatureLinksOf(matrixProducts, findProduct(matrixProducts, routeProduct),
                   routeTag, routeSecondary)

\* The links of the page on the screen.  The console has none.
PageLinks ==
    IF appScreen # "routes" \/ Crashed THEN {}
    ELSE IF route = "matrix" THEN MatrixLinks
    ELSE IF route = "tags"
    THEN {Target("tagDetail", tagsView.cards[c].name, "", "") :
            c \in 1..Len(tagsView.cards)}
    ELSE IF route \in {"tagDetail", "tagFeatures"} THEN TagDetailLinks
    ELSE IF route = "products"
    THEN {Target("product", "", "", matrixProducts[k].name) :
            k \in 1..Len(matrixProducts)}
    ELSE IF route = "product" THEN ProductLinks
    ELSE IF route = "feature" THEN FeatureLinks
    ELSE {}

\* The links of the navigation bar, which is on the screen with the routes.
NavLinks ==
    IF appScreen # "routes" \/ Crashed THEN {}
    ELSE {Target(to, "", "", "") : to \in {"matrix", "tags", "products", "admin"}}

\* The element of a route: both routes of a tag have TagDetailPage.
ElementOf(to) == IF to = "tagFeatures" THEN "tagDetail" ELSE to

\* The state of the console as far as the routes go: AdminPage is mounted
\* while its route is on the screen.  The browser holds no token here, so the
\* mount effect restores no session; what the console does once it is on the
\* screen is followed from InitAdmin.
AdminMounted(isMounted) ==
    /\ mounted' = isMounted
    /\ UNCHANGED <<localStorageToken, authToken, isAuthenticated, scriptLogs,
                   requests, lastResponse>>

\* The address changes.
Addressed(target) ==
    /\ route' = target.to
    /\ routeTag' = target.primaryTag
    /\ routeSecondary' = target.secondaryTag
    /\ routeProduct' = target.product

\* The page of the route is mounted with its initial state and its effect
\* fetches admin_config.json; the page that was on the screen is gone, and so
\* are its state and whatever its fetch would have set.
Mounted(target) ==
    /\ Addressed(target)
    /\ appScreen' = "routes"
    /\ excludeTags' = <<>>
    /\ expandedPrimaryTags' = {}
    /\ configFetch' = IF target.to \in {"matrix", "tags", "tagDetail",
                                        "tagFeatures"}
                      THEN "pending" ELSE "none"
    /\ matrixView' = IF target.to = "matrix"
                     THEN MatrixPage(matrixTags, matrixProducts, <<>>, {})
                     ELSE EmptyView
    /\ tagsView' = IF target.to = "tags"
                   THEN TagsPage(matrixTags, matrixProducts, <<>>)
                   ELSE NoCards
    /\ detailView' = IF target.to \in {"tagDetail", "tagFeatures"}
                     THEN DetailOf(target.to, matrixTags, matrixProducts,
                                   target.primaryTag, target.secondaryTag, <<>>)
                     ELSE NoDetail
    /\ AdminMounted(target.to = "admin")
    /\ UNCHANGED <<matrixTags, matrixProducts>>
    /\ UnchangedExcept("views")

\* The address changes between the two routes of a tag: their element is the
\* same TagDetailPage, which stays mounted and keeps its state and its fetch.
Rerendered(target) ==
    /\ Addressed(target)
    /\ detailView' = DetailOf(target.to, matrixTags, matrixProducts,
                              target.primaryTag, target.secondaryTag,
                              excludeTags)
    /\ UNCHANGED <<appScreen, tagsView>>
    /\ UNCHANGED matrixVars
    /\ UNCHANGED adminVars
    /\ UnchangedExcept("views")

\* A click on a link to an address other than the one on the screen.
GoTo(target) ==
    /\ target # Here
    /\ IF ElementOf(target.to) = ElementOf(route)
       THEN Rerendered(target)
       ELSE Mounted(target)

\* A click on a link on the screen: a NavLink of the navigation bar (Matrix,
\* Tags, Products, Admin) or a link of the page.
Navigate == \E target \in NavLinks \cup PageLinks : GoTo(target)

\* The page on the screen is unmounted: App returns something else.
Unmounted(screen) ==
    /\ appScreen' = screen
    /\ excludeTags' = <<>>
    /\ expandedPrimaryTags' = {}
    /\ configFetch' = "none"
    /\ matrixView' = EmptyView
    /\ tagsView' = NoCards
    /\ detailView' = NoDetail
    /\ AdminMounted(FALSE)
    /\ UNCHANGED <<route, routeTag, routeSecondary, routeProduct, matrixTags,
                   matrixProducts>>
    /\ UnchangedExcept("views")

\* The Refresh button of the navigation bar: reload sets loading, App returns
\* 'Loading data...' and the page is unmounted.
RefreshViews ==
    /\ appScreen = "routes"
    /\ ~Crashed
    /\ Unmounted("loading")

\* The load ends.  With the documents answered as they were, App returns the
\* routes and the page of the address is mounted anew; when tag.json cannot
\* be loaded, App returns the error and the Retry button.
ViewsLoaded ==
    /\ appScreen = "loading"
    /\ \/ Mounted(Here)
       \/ Unmounted("error")

\* The Retry button of the error: reload.
RetryViews ==
    /\ appScreen = "error"
    /\ Unmounted("loading")

\* The effect of the Tags page that loads the excluded tags.
TagsPageLoadExcludeTags ==
    /\ OnScreen("tags")
    /\ configFetch = "pending"
    /\ ~Crashed
    /\ configFetch' = "settled"
    /\ \/ \E list \in ExcludeLists : excludeTags' = list
       \/ UNCHANGED excludeTags
    /\ tagsView' = TagsPage(matrixTags, matrixProducts, excludeTags')
    /\ UNCHANGED <<matrixTags, matrixProducts, expandedPrimaryTags, matrixView,
                   appScreen, route, routeTag, routeSecondary, routeProduct,
                   detailView>>
    /\ UNCHANGED adminVars
    /\ UnchangedExcept("views")

\* The effect of TagDetailPage that loads the excluded tags.
TagDetailLoadExcludeTags ==
    /\ OnScreen("tagDetail") \/ OnScreen("tagFeatures")
    /\ configFetch = "pending"
    /\ ~Crashed
    /\ configFetch' = "settled"
    /\ \/ \E list \in ExcludeLists : excludeTags' = list
       \/ UNCHANGED excludeTags
    /\ detailView' = DetailOf(route, matrixTags, matrixProducts, routeTag,
                              routeSecondary, excludeTags')
    /\ UNCHANGED <<matrixTags, matrixProducts, expandedPrimaryTags, matrixView,
                   appScreen, route, routeTag, routeSecondary, routeProduct,
                   tagsView>>
    /\ UNCHANGED adminVars
    /\ UnchangedExcept("views")

MaxViewProducts == 1   \* products loaded when the routes are followed

\* The application opens on the Matrix.  A tag without a subtags array takes
\* the Matrix down in its first render, before any link can be followed: the
\* routes are followed over the taxonomies whose tags all have the array.
InitViews ==
    /\ InitMatrix
    /\ Len(matrixProducts) <= MaxViewProducts
    /\ \A i \in 1..Len(matrixTags) : IsArray(matrixTags[i].subtags)

NextViews ==
    \/ OnScreen("matrix") /\ LoadExcludeTags
    \/ OnScreen("matrix") /\ TogglePrimaryTag
    \/ OnScreen("matrix") /\ expandAll
    \/ OnScreen("matrix") /\ collapseAll
    \/ Navigate
    \/ RefreshViews
    \/ ViewsLoaded
    \/ RetryViews
    \/ TagsPageLoadExcludeTags
    \/ TagDetailLoadExcludeTags

SpecViews == InitViews /\ [][NextViews]_vars

-----------------------------------------------------------------------------
(* pages/AdminPage: the session and the bearer-authenticated calls *)

MaxInFlight == 2   \* requests in flight once the user has started a call
MaxQueued == 8     \* requests in flight once a login has been answered

Null == "<null>"

\* The tokens the login endpoint may hand out.
Tokens == {"token-1", "token-2"}

\* What a fetch may end in: an ok response, a 401, another status that is not
\* ok, or a rejection (the network is down).
Statuses == {"ok", "401", "500", "network"}

\* A request in flight: the endpoint, the token of the render whose handler
\* sent it, and the loads that handler still awaits after this one.
Request(call, token, next) == [call |-> call, token |-> token, next |-> next]

NoResponse == [call |-> "none", status |-> "none"]

RemoveAt(q, i) == SubSeq(q, 1, i - 1) \o SubSeq(q, i + 1, Len(q))

\* The loads of the two effects that run once the console is authenticated,
\* in the order they are sent: loadLogs, loadOthersFeatures, loadTagsData,
\* loadUntaggedFeatures, loadUsedSubtags, loadFeatures, and loadFeatures again
\* from the effect of the feature list.
PostLoginLoads(token) ==
    [k \in 1..7 |->
        Request(<<"logs", "others", "tags", "untagged", "used-subtags",
                  "features", "features">>[k], token, <<>>)]

\* The user is looking at the console and starts a call: every handler
\* returns at once when authToken is null.  A call is started while fewer than
\* MaxInFlight requests are in flight.
ConsoleShown ==
    /\ mounted
    /\ isAuthenticated
    /\ authToken # Null
    /\ Len(requests) < MaxInFlight

\* A handler sends its request with the token of the current render.
Send(call) ==
    /\ requests' = Append(requests, Request(call, authToken, <<>>))
    /\ lastResponse' = NoResponse
    /\ UNCHANGED <<localStorageToken, authToken, isAuthenticated, scriptLogs,
                   mounted>>
    /\ UnchangedExcept("admin")

\* The loads a handler goes on to once request i has been dealt with: after an
\* ok response the reloads of this handler, then what its caller awaits next.
\* They are sent by the same closure, so with the same token.
Followup(i, status, reloads) ==
    LET chain == IF status = "ok" THEN reloads \o requests[i].next
                 ELSE requests[i].next
    IN  IF chain = <<>> THEN <<>>
        ELSE <<Request(Head(chain), requests[i].token, Tail(chain))>>

\* Request i is answered and its handler runs on without touching the session.
Answered(i, status, reloads) ==
    /\ requests' = RemoveAt(requests, i) \o Followup(i, status, reloads)
    /\ lastResponse' = [call |-> requests[i].call, status |-> status]
    /\ UNCHANGED mounted
    /\ UnchangedExcept("admin")

\* The response handling without the 401 branch: a handler that looks at
\* response.ok only.
AnsweredOrLogout_No401Branch(i, status, reloads) ==
    /\ Answered(i, status, reloads)
    /\ UNCHANGED <<localStorageToken, authToken, isAuthenticated, scriptLogs>>

\* The response handling with a logout that keeps the token in the state:
\* localStorage is cleared and isAuthenticated reset, authToken stays.
AnsweredOrLogout_KeepsToken(i, status, reloads) ==
    /\ Answered(i, status, reloads)
    /\ IF status = "401"
       THEN /\ localStorageToken' = Null
            /\ isAuthenticated' = FALSE
            /\ scriptLogs' = "empty"
            /\ UNCHANGED authToken
       ELSE UNCHANGED <<localStorageToken, authToken, isAuthenticated,
                        scriptLogs>>

\* The response handling shared by the handlers with an
\* else if (response.status === 401) handleLogout() branch.
AnsweredOrLogout(i, status, reloads) ==
    /\ Answered(i, status, reloads)
    /\ IF status = "401"
       THEN /\ localStorageToken' = Null
            /\ authToken' = Null
            /\ isAuthenticated' = FALSE
            /\ scriptLogs' = "empty"
       ELSE UNCHANGED <<localStorageToken, authToken, isAuthenticated,
                        scriptLogs>>

\* The mount effect: a saved token restores the session, and the effects of
\* an authenticated console send their loads.
RestoreSession ==
    /\ ~mounted
    /\ mounted' = TRUE
    /\ lastResponse' = NoResponse
    /\ IF localStorageToken # Null
       THEN /\ authToken' = localStorageToken
            /\ isAuthenticated' = TRUE
            /\ requests' = requests \o PostLoginLoads(localStorageToken)
       ELSE UNCHANGED <<authToken, isAuthenticated, requests>>
    /\ UNCHANGED <<localStorageToken, scriptLogs>>
    /\ UnchangedExcept("admin")

\* The login form is shown while the console is not authenticated, and
\* nothing disables its button while a POST is in flight: it can be submitted
\* again before the previous submission has been answered.  An ok response
\* opens the session with its token, and the effects of the console send
\* their loads whenever isAuthenticated or authToken has changed.
handleLogin ==
    \/ /\ mounted
       /\ ~isAuthenticated
       /\ Len(requests) < MaxInFlight
       /\ requests' = Append(requests, Request("login", Null, <<>>))
       /\ lastResponse' = NoResponse
       /\ UNCHANGED <<localStorageToken, authToken, isAuthenticated,
                      scriptLogs, mounted>>
       /\ UnchangedExcept("admin")
    \/ \E i \in 1..Len(requests), status \in Statuses, token \in Tokens :
          /\ requests[i].call = "login"
          /\ lastResponse' = [call |-> "login", status |-> status]
          /\ IF status = "ok"
             THEN /\ authToken' = token
                  /\ localStorageToken' = token
                  /\ isAuthenticated' = TRUE
                  /\ requests' =
                        RemoveAt(requests, i) \o
                        (IF isAuthenticated /\ authToken = token THEN <<>>
                         ELSE PostLoginLoads(token))
                  /\ Len(requests') <= MaxQueued
             ELSE /\ requests' = RemoveAt(requests, i)
                  /\ UNCHANGED <<authToken, localStorageToken, isAuthenticated>>
          /\ UNCHANGED <<scriptLogs, mounted>>
          /\ UnchangedExcept("admin")

handleLogout ==
    /\ mounted
    /\ isAuthenticated
    /\ localStorageToken' = Null
    /\ authToken' = Null
    /\ isAuthenticated' = FALSE
    /\ scriptLogs' = "empty"
    /\ lastResponse' = NoResponse
    /\ UNCHANGED <<requests, mounted>>
    /\ UnchangedExcept("admin")

loadOthersFeatures ==
    \/ ConsoleShown /\ Send("others")
    \/ \E i \in 1..Len(requests), status \in Statuses :
          requests[i].call = "others" /\ AnsweredOrLogout(i, status, <<>>)

\* Sent by the effect and after a rename or an Others update only.
loadTagsData ==
    \E i \in 1..Len(requests), status \in Statuses :
        /\ requests[i].call = "tags"
        /\ Answered(i, status, <<>>)
        /\ UNCHANGED <<localStorageToken, authToken, isAuthenticated,
                       scriptLogs>>

loadUntaggedFeatures ==
    \/ ConsoleShown /\ Send("untagged")
    \/ \E i \in 1..Len(requests), status \in Statuses :
          requests[i].call = "untagged" /\ AnsweredOrLogout(i, status, <<>>)

\* Sent by the effect and after a card has tagged a feature only.
loadUsedSubtags ==
    \E i \in 1..Len(requests), status \in Statuses :
        /\ requests[i].call = "used-subtags"
        /\ Answered(i, status, <<>>)
        /\ UNCHANGED <<localStorageToken, authToken, isAuthenticated,
                       scriptLogs>>

markAsNoTag ==
    \/ ConsoleShown /\ Send("feature/mark-none")
    \/ \E i \in 1..Len(requests), status \in Statuses :
          /\ requests[i].call = "feature/mark-none"
          /\ AnsweredOrLogout(i, status, <<"untagged">>)

updateOthersTag ==
    \/ ConsoleShown /\ Send("others/update")
    \/ \E i \in 1..Len(requests), status \in Statuses :
          /\ requests[i].call = "others/update"
          /\ AnsweredOrLogout(i, status, <<"others", "tags">>)

loadFeatures ==
    \/ ConsoleShown /\ Send("features")
    \/ \E i \in 1..Len(requests), status \in Statuses :
          requests[i].call = "features" /\ AnsweredOrLogout(i, status, <<>>)

updateFeatureTags ==
    \/ ConsoleShown /\ Send("feature/update-tags")
    \/ \E i \in 1..Len(requests), status \in Statuses :
          /\ requests[i].call = "feature/update-tags"
          /\ AnsweredOrLogout(i, status, <<"features">>)

renameTag ==
    \/ ConsoleShown /\ Send("tag/rename")
    \/ \E i \in 1..Len(requests), status \in Statuses :
          /\ requests[i].call = "tag/rename"
          /\ AnsweredOrLogout(i, status, <<"tags">>)

saveExcludeTags ==
    \/ ConsoleShown /\ Send("config")
    \/ \E i \in 1..Len(requests), status \in Statuses :
          requests[i].call = "config" /\ AnsweredOrLogout(i, status, <<>>)

\* An ok response arms a 2-second timer; when it fires, the feature list is
\* loaded by the closure that sent the request.
addFeature ==
    \/ ConsoleShown /\ Send("feature/add")
    \/ \E i \in 1..Len(requests), status \in Statuses :
          /\ requests[i].call = "feature/add"
          /\ AnsweredOrLogout(i, status, <<"timer">>)
    \/ \E i \in 1..Len(requests) :
          /\ requests[i].call = "timer"
          /\ requests' = RemoveAt(requests, i)
                            \o <<Request("features", requests[i].token, <<>>)>>
          /\ lastResponse' = NoResponse
          /\ UNCHANGED <<localStorageToken, authToken, isAuthenticated,
                         scriptLogs, mounted>>
          /\ UnchangedExcept("admin")

editFeature ==
    \/ ConsoleShown /\ Send("feature/edit")
    \/ \E i \in 1..Len(requests), status \in Statuses :
          /\ requests[i].call = "feature/edit"
          /\ AnsweredOrLogout(i, status, <<"features">>)

deleteFeature ==
    \/ ConsoleShown /\ Send("feature/delete")
    \/ \E i \in 1..Len(requests), status \in Statuses :
          /\ requests[i].call = "feature/delete"
          /\ AnsweredOrLogout(i, status, <<"features">>)

\* Every response that is not ok, and a rejected fetch, empty the logs.
loadLogs ==
    \/ ConsoleShown /\ Send("logs")
    \/ \E i \in 1..Len(requests), status \in Statuses :
          /\ requests[i].call = "logs"
          /\ Answered(i, status, <<>>)
          /\ scriptLogs' = IF status = "ok" THEN "loaded" ELSE "empty"
          /\ UNCHANGED <<localStorageToken, authToken, isAuthenticated>>

\* UntaggedFeatureCard: the card posts the tags itself and then has the
\* untagged list and the used subtags reloaded.
handleAddTag ==
    \/ ConsoleShown /\ Send("card/update-tags")
    \/ \E i \in 1..Len(requests), status \in Statuses :
          /\ requests[i].call = "card/update-tags"
          /\ Answered(i, status, <<"untagged", "used-subtags">>)
          /\ UNCHANGED <<localStorageToken, authToken, isAuthenticated,
                         scriptLogs>>

InitAdmin ==
    /\ localStorageToken \in Tokens \cup {Null}
    /\ authToken = Null
    /\ isAuthenticated = FALSE
    /\ scriptLogs = "empty"
    /\ requests = <<>>
    /\ lastResponse = NoResponse
    /\ mounted = FALSE
    /\ IdleExcept("admin")

NextAdmin ==
    \/ RestoreSession \/ handleLogin \/ handleLogout
    \/ loadOthersFeatures \/ loadTagsData \/ loadUntaggedFeatures
    \/ loadUsedSubtags \/ markAsNoTag \/ updateOthersTag \/ loadFeatures
    \/ updateFeatureTags \/ renameTag \/ saveExcludeTags \/ addFeature
    \/ editFeature \/ deleteFeature \/ loadLogs \/ handleAddTag

SpecAdmin == InitAdmin /\ [][NextAdmin]_vars

-----------------------------------------------------------------------------
(* pages/AdminPage: the long-running jobs and the polling of their status *)

MaxLoops == 1        \* polling loops started in one run of the console
MaxPosts == 2        \* triggering POSTs of one job in flight

maxAttempts == 150   \* pollTaskStatus: const maxAttempts = 150
pollDelay == 2000    \* pollTaskStatus: setTimeout(poll, 2000)

Tasks == {"crawl", "summary"}

\* A last-run time: none, the one the server reports, or the client's clock.
LastRuns == {Null, "reported", "now"}

\* The command an alert tells the user to run by hand.
ManualCommand(task) ==
    IF task = "crawl" THEN "python3 script/monitor.py"
    ELSE "python3 script/ai_summary.py"

NoEvent == [kind |-> "none", task |-> "none", answer |-> "none",
            alert |-> "none"]

\* No triggering POST is in flight.
NoTriggers == [task \in Tasks |-> 0]

StatusOf(task) == IF task = "crawl" THEN crawlStatus ELSE summaryStatus

\* setCrawlStatus / setSummaryStatus; React drops the update of a component
\* that is no longer mounted.
SetStatus(task, value) ==
    IF ~mounted THEN UNCHANGED <<crawlStatus, summaryStatus>>
    ELSE IF task = "crawl"
    THEN crawlStatus' = value /\ UNCHANGED summaryStatus
    ELSE summaryStatus' = value /\ UNCHANGED crawlStatus

\* The session is not touched by the jobs.
SessionUnchanged ==
    UNCHANGED <<localStorageToken, authToken, isAuthenticated, requests,
                lastResponse, mounted>>

\* pollTaskStatus(taskType): attempts starts at 0 and the first run of poll is
\* put on a timer.
pollTaskStatus(task) ==
    loops' = Append(loops, [taskType |-> task, attempts |-> 0, checks |-> 0,
                            phase |-> "waiting", timer |-> pollDelay])

\* A click on a run button, which is disabled while isRunning is set and by
\* nothing else: once a status load has put isRunning back to false, the
\* button sends another POST while the first one is still in flight.
ClickRun(task) ==
    /\ mounted
    /\ isAuthenticated
    /\ ~StatusOf(task).isRunning
    /\ triggers[task] < MaxPosts
    /\ SetStatus(task, [StatusOf(task) EXCEPT !.isRunning = TRUE])
    /\ triggers' = [triggers EXCEPT ![task] = @ + 1]
    /\ pollEvent' = NoEvent
    /\ UNCHANGED <<loops, scriptLogs>>
    /\ SessionUnchanged
    /\ UnchangedExcept("poll")

\* The trigger with its failure handling left out: a loop is started whatever
\* the POST ends in.
RunAnsweredWithin_NoFailure(cap, task, status) ==
    /\ triggers[task] > 0
    /\ triggers' = [triggers EXCEPT ![task] = @ - 1]
    /\ Len(loops) < cap
    /\ pollTaskStatus(task)
    /\ pollEvent' = [kind |-> "trigger", task |-> task, answer |-> status,
                     alert |-> "none"]
    /\ UNCHANGED <<crawlStatus, summaryStatus, scriptLogs>>
    /\ SessionUnchanged
    /\ UnchangedExcept("poll")

\* The POST that triggers the job is answered: an ok response starts the
\* polling; a response that is not ok and a rejected fetch show the alert and
\* put isRunning back to false.  The loops are followed up to cap of them.
RunAnsweredWithin(cap, task, status) ==
    /\ triggers[task] > 0
    /\ triggers' = [triggers EXCEPT ![task] = @ - 1]
    /\ IF status = "ok"
       THEN /\ Len(loops) < cap
            /\ pollTaskStatus(task)
            /\ pollEvent' = [kind |-> "trigger", task |-> task,
                             answer |-> status, alert |-> "none"]
            /\ UNCHANGED <<crawlStatus, summaryStatus>>
       ELSE /\ pollEvent' = [kind |-> "trigger", task |-> task,
                             answer |-> status, alert |-> ManualCommand(task)]
            /\ SetStatus(task, [StatusOf(task) EXCEPT !.isRunning = FALSE])
            /\ UNCHANGED loops
    /\ UNCHANGED scriptLogs
    /\ SessionUnchanged
    /\ UnchangedExcept("poll")

RunAnswered(task, status) == RunAnsweredWithin(MaxLoops, task, status)

runIncrementalUpdate ==
    \/ ClickRun("crawl")
    \/ \E status \in {"ok", "500", "network"} : RunAnswered("crawl", status)

runAISummary ==
    \/ ClickRun("summary")
    \/ \E status \in {"ok", "500", "network"} : RunAnswered("summary", status)

\* The timer of a loop fires: poll runs and checkStatus sends its request.
poll ==
    \E l \in 1..Len(loops) :
        /\ loops[l].phase = "waiting"
        /\ loops' = [loops EXCEPT ![l] =
                        [@ EXCEPT !.phase = "checking",
                                  !.checks = @ + 1,
                                  !.timer = 0]]
        /\ pollEvent' = NoEvent
        /\ UNCHANGED <<crawlStatus, summaryStatus, triggers, scriptLogs>>
        /\ SessionUnchanged
        /\ UnchangedExcept("poll")

\* What poll does once checkStatus has returned:
\* if (!done && attempts < maxAttempts) { attempts++; setTimeout(poll, 2000) }
afterCheck(loop, done) ==
    IF done THEN [loop EXCEPT !.phase = "done"]
    ELSE IF loop.attempts < maxAttempts
         THEN [loop EXCEPT !.attempts = @ + 1, !.phase = "waiting",
                           !.timer = pollDelay]
         ELSE [loop EXCEPT !.phase = "gave up"]

\* checkStatus without the return true: the job is seen finished, the state is
\* updated, and the polling goes on.
checkIdle_NoStop(l, lastRun) ==
    /\ SetStatus(loops[l].taskType, [lastRun |-> lastRun, isRunning |-> FALSE])
    /\ loops' = [loops EXCEPT ![l] = afterCheck(@, FALSE)]

\* checkStatus on an ok response that reports the job as not running: the
\* status is set with the reported last run, or the client's time when none is
\* reported; for crawl the logs are reloaded and awaited before it returns.
checkIdle(l, lastRun) ==
    /\ SetStatus(loops[l].taskType, [lastRun |-> lastRun, isRunning |-> FALSE])
    /\ loops' = [loops EXCEPT ![l] =
                    IF @.taskType = "crawl" THEN [@ EXCEPT !.phase = "logs"]
                    ELSE afterCheck(@, TRUE)]

\* The request of checkStatus is answered: "running" and "idle" are ok
\* responses, "500" one that is not ok, "network" a rejected fetch.
checkStatus ==
    \E l \in 1..Len(loops),
       answer \in {"running", "idle", "500", "network"} :
        /\ loops[l].phase = "checking"
        /\ pollEvent' = [kind |-> "check", task |-> loops[l].taskType,
                         answer |-> answer, alert |-> "none"]
        /\ IF answer = "idle"
           THEN \E lastRun \in {"reported", "now"} : checkIdle(l, lastRun)
           ELSE /\ loops' = [loops EXCEPT ![l] = afterCheck(@, FALSE)]
                /\ UNCHANGED <<crawlStatus, summaryStatus>>
        /\ UNCHANGED <<triggers, scriptLogs>>
        /\ SessionUnchanged
        /\ UnchangedExcept("poll")

\* The reload of the logs that checkStatus awaits is answered; checkStatus
\* returns true and poll schedules nothing.
loadLogsAfterCrawl ==
    \E l \in 1..Len(loops), status \in Statuses :
        /\ loops[l].phase = "logs"
        /\ scriptLogs' = IF ~mounted THEN scriptLogs
                         ELSE IF status = "ok" THEN "loaded" ELSE "empty"
        /\ loops' = [loops EXCEPT ![l] = afterCheck(@, TRUE)]
        /\ pollEvent' = NoEvent
        /\ UNCHANGED <<crawlStatus, summaryStatus, triggers>>
        /\ SessionUnchanged
        /\ UnchangedExcept("poll")

\* An authenticated console whose status load has found no job running.
InitPoll ==
    /\ crawlStatus \in [lastRun : {Null, "reported"}, isRunning : {FALSE}]
    /\ summaryStatus \in [lastRun : {Null, "reported"}, isRunning : {FALSE}]
    /\ loops = <<>>
    /\ triggers = NoTriggers
    /\ pollEvent = NoEvent
    /\ localStorageToken \in Tokens
    /\ authToken = localStorageToken
    /\ isAuthenticated = TRUE
    /\ scriptLogs \in {"empty", "loaded"}
    /\ requests = <<>>
    /\ lastResponse = NoResponse
    /\ mounted = TRUE
    /\ IdleExcept("poll")

NextPoll ==
    \/ runIncrementalUpdate \/ runAISummary
    \/ poll \/ checkStatus \/ loadLogsAfterCrawl

SpecPoll == InitPoll /\ [][NextPoll]_vars

\* The scheduling of the jobs: a timer that is set fires, and a request that
\* was sent is answered or rejected; nothing makes the user click.
RunAnsweredSomehow(task) ==
    \E status \in {"ok", "500", "network"} : RunAnswered(task, status)

FairPoll ==
    /\ WF_vars(poll)
    /\ WF_vars(checkStatus)
    /\ WF_vars(loadLogsAfterCrawl)
    /\ WF_vars(RunAnsweredSomehow("crawl"))
    /\ WF_vars(RunAnsweredSomehow("summary"))

SpecPollFair == InitPoll /\ [][NextPoll]_vars /\ FairPoll

\* A click on a link of the navigation bar takes the console off the screen:
\* AdminPage is unmounted.  pollTaskStatus keeps no handle of its timer and
\* the page has no cleanup, so the timer, the request of checkStatus and the
\* POST of a trigger stay as they are.
LeavePage ==
    /\ mounted
    /\ mounted' = FALSE
    /\ pollEvent' = NoEvent
    /\ UNCHANGED <<crawlStatus, summaryStatus, loops, triggers>>
    /\ UNCHANGED <<localStorageToken, authToken, isAuthenticated, scriptLogs,
                   requests, lastResponse>>
    /\ UnchangedExcept("poll")

NextLeave ==
    \/ runIncrementalUpdate \/ runAISummary
    \/ poll \/ checkStatus \/ loadLogsAfterCrawl
    \/ LeavePage

SpecLeave == InitPoll /\ [][NextLeave]_vars

-----------------------------------------------------------------------------
(* pages/AdminPage: the status load of a session and the polling it starts *)

MaxStatusLoads == 2   \* logins and status loads in flight
MaxStatusLoops == 2   \* polling loops a run of the console is followed for
MaxFollowed == 1      \* checks a polling loop is followed for

\* The effect that follows a session: loadRunStatus sends GET /api/status.
\* The request carries no token.
StatusLoad == Request("status", Null, <<>>)

\* The mount effect: a token found in localStorage opens the session, and the
\* effect that follows the session loads the status.
StatusRestore ==
    /\ ~mounted
    /\ mounted' = TRUE
    /\ IF localStorageToken # Null
       THEN /\ authToken' = localStorageToken
            /\ isAuthenticated' = TRUE
            /\ requests' = Append(requests, StatusLoad)
       ELSE UNCHANGED <<authToken, isAuthenticated, requests>>
    /\ pollEvent' = NoEvent
    /\ UNCHANGED <<localStorageToken, scriptLogs, lastResponse>>
    /\ UNCHANGED <<crawlStatus, summaryStatus, loops, triggers>>
    /\ UnchangedExcept("poll")

\* handleLogin.  The login form is shown while the console is not
\* authenticated, and nothing disables its button while a POST is in flight.
\* An ok response opens the session with the token it carries, and the effect
\* that follows isAuthenticated and authToken loads the status whenever one
\* of the two has changed; a failed login changes nothing.
StatusLogin ==
    \/ /\ mounted
       /\ ~isAuthenticated
       /\ Len(requests) < MaxStatusLoads
       /\ requests' = Append(requests, Request("login", Null, <<>>))
       /\ pollEvent' = NoEvent
       /\ UNCHANGED <<localStorageToken, authToken, isAuthenticated,
                      scriptLogs, lastResponse, mounted>>
       /\ UNCHANGED <<crawlStatus, summaryStatus, loops, triggers>>
       /\ UnchangedExcept("poll")
    \/ \E i \in 1..Len(requests), status \in Statuses, token \in Tokens :
          /\ requests[i].call = "login"
          /\ IF status = "ok"
             THEN /\ authToken' = token
                  /\ localStorageToken' = token
                  /\ isAuthenticated' = TRUE
                  /\ requests' =
                        RemoveAt(requests, i) \o
                        (IF isAuthenticated /\ authToken = token THEN <<>>
                         ELSE <<StatusLoad>>)
             ELSE /\ requests' = RemoveAt(requests, i)
                  /\ UNCHANGED <<authToken, localStorageToken, isAuthenticated>>
          /\ pollEvent' = NoEvent
          /\ UNCHANGED <<scriptLogs, lastResponse, mounted>>
          /\ UNCHANGED <<crawlStatus, summaryStatus, loops, triggers>>
          /\ UnchangedExcept("poll")

\* handleLogout: the session is closed; the status of the jobs, the timers
\* and the requests in flight are not touched.
StatusLogout ==
    /\ mounted
    /\ isAuthenticated
    /\ localStorageToken' = Null
    /\ authToken' = Null
    /\ isAuthenticated' = FALSE
    /\ scriptLogs' = "empty"
    /\ pollEvent' = NoEvent
    /\ UNCHANGED <<requests, lastResponse, mounted>>
    /\ UNCHANGED <<crawlStatus, summaryStatus, loops, triggers>>
    /\ UnchangedExcept("poll")

\* The loops loadRunStatus starts: one for each job reported as running.
loopsStarted(crawlRunning, summaryRunning) ==
    (IF crawlRunning
     THEN <<[taskType |-> "crawl", attempts |-> 0, checks |-> 0,
             phase |-> "waiting", timer |-> pollDelay]>>
     ELSE <<>>)
    \o (IF summaryRunning
        THEN <<[taskType |-> "summary", attempts |-> 0, checks |-> 0,
                phase |-> "waiting", timer |-> pollDelay]>>
        ELSE <<>>)

\* loadRunStatus, its request answered.  An ok response of /api/status sets
\* both statuses and starts the polling of every job it reports as running.
\* Otherwise the static file is read: when it is there, both statuses are
\* set as not running; when it is not, nothing is set.
loadRunStatus ==
    \E i \in 1..Len(requests),
       source \in {"api", "file", "none"},
       crawlRunning \in BOOLEAN, summaryRunning \in BOOLEAN,
       crawlLast \in {Null, "reported"}, summaryLast \in {Null, "reported"} :
        /\ requests[i].call = "status"
        /\ source # "api" => ~crawlRunning /\ ~summaryRunning
        /\ source = "none" => crawlLast = Null /\ summaryLast = Null
        /\ requests' = RemoveAt(requests, i)
        /\ IF source = "none" \/ ~mounted
           THEN UNCHANGED <<crawlStatus, summaryStatus>>
           ELSE /\ crawlStatus' =
                      [lastRun |-> crawlLast, isRunning |-> crawlRunning]
                /\ summaryStatus' =
                      [lastRun |-> summaryLast, isRunning |-> summaryRunning]
        /\ loops' = loops \o loopsStarted(crawlRunning, summaryRunning)
        /\ Len(loops') <= MaxStatusLoops
        /\ pollEvent' = NoEvent
        /\ UNCHANGED <<triggers, scriptLogs>>
        /\ UNCHANGED <<localStorageToken, authToken, isAuthenticated,
                       lastResponse, mounted>>
        /\ UnchangedExcept("poll")

\* The run buttons of a console that is followed for MaxStatusLoops loops.
StatusRun(task) ==
    \/ ClickRun(task)
    \/ \E status \in {"ok", "500", "network"} :
          RunAnsweredWithin(MaxStatusLoops, task, status)

\* Every loop has made at most MaxFollowed checks.
Followed == \A l \in 1..Len(loops) : loops[l].checks < MaxFollowed

\* The console before its mount effect has run.
InitStatus ==
    /\ localStorageToken \in Tokens \cup {Null}
    /\ authToken = Null
    /\ isAuthenticated = FALSE
    /\ scriptLogs = "empty"
    /\ requests = <<>>
    /\ lastResponse = NoResponse
    /\ mounted = FALSE
    /\ crawlStatus = [lastRun |-> Null, isRunning |-> FALSE]
    /\ summaryStatus = [lastRun |-> Null, isRunning |-> FALSE]
    /\ loops = <<>>
    /\ triggers = NoTriggers
    /\ pollEvent = NoEvent
    /\ IdleExcept("poll")

NextStatus ==
    \/ StatusRestore \/ StatusLogin \/ StatusLogout
    \/ loadRunStatus
    \/ StatusRun("crawl") \/ StatusRun("summary")
    \/ (Followed /\ poll)
    \/ checkStatus \/ loadLogsAfterCrawl

SpecStatus == InitStatus /\ [][NextStatus]_vars

-----------------------------------------------------------------------------
(* pages/AdminPage: the Others list, the untagged list and the feature list *)

requestTimeout == 30000   \* setTimeout(() => controller.abort(), 30000)
pageSize == 20            \* page_size: 20, featurePage * 20 >= featureTotal
TickMs == requestTimeout          \* the step by which time is followed
MaxElapsed == 2 * requestTimeout  \* how long a request is followed
MaxListRequests == 2      \* loads and writes in flight
MaxIssued == 3            \* requests sent in one run of the console

ListNames == {"others", "untagged", "features"}
FeatureProducts == {"youware", "bolt"}   \* two of the options of the select
Searches == {"", "ai"}                   \* texts of the search box
Totals == {0, 25}                        \* data.total || 0 of an ok response
Lengths == {0, pageSize}                 \* data.features of it: none, a page
WriteKinds == {"update-tags", "edit", "delete", "add"}

\* The messages of setOthersError, setUntaggedError and setFeaturesError.
ErrorOf(outcome) ==
    IF outcome = "status" THEN "API error"
    ELSE IF outcome = "timeout" THEN "request timed out"
    ELSE "load failed"

\* The state of a list before any response: [].
InitialList == [seq |-> 0, product |-> "", page |-> 0, search |-> ""]

NoListEvent == [list |-> "none", outcome |-> "none", seq |-> 0]

\* A call of a loader or of a write: what it asks for.
Call(list, prod, page, search) ==
    [list |-> list, product |-> prod, page |-> page, search |-> search]

loadOthers == Call("others", "", 0, "")
loadUntagged == Call("untagged", "", 0, "")
loadFeaturesOf(prod, page, search) ==
    Call("features", prod, page, search)

\* The request of the k-th of the calls, sent after n others: the fetch is
\* pending and the abort timer has just been set.
ListRequest(call, n) ==
    [list |-> call.list, seq |-> n, product |-> call.product,
     page |-> call.page, search |-> call.search, phase |-> "fetching",
     status |-> "none", elapsed |-> 0]

\* The calls are made one after the other in one step, after the queue q:
\* every loader among them sets its loading flag and clears its error before
\* it sends its request.
IssueOn(q, calls) ==
    /\ Len(q) + Len(calls) <= MaxListRequests
    /\ issued + Len(calls) <= MaxIssued
    /\ listRequests' =
          q \o [k \in 1..Len(calls) |-> ListRequest(calls[k], issued + k)]
    /\ issued' = issued + Len(calls)
    /\ listLoading' =
          [n \in ListNames |->
              IF \E k \in 1..Len(calls) : calls[k].list = n THEN TRUE
              ELSE listLoading[n]]
    /\ listError' =
          [n \in ListNames |->
              IF \E k \in 1..Len(calls) : calls[k].list = n THEN Null
              ELSE listError[n]]

Issue(calls) == IssueOn(listRequests, calls)

\* The controls of the console are on the screen.
ListsShown == mounted /\ isAuthenticated

SessionKept ==
    UNCHANGED <<localStorageToken, authToken, isAuthenticated, scriptLogs,
                requests, lastResponse, mounted>>

\* The refresh button of the Others and of the untagged section, disabled
\* while the list is loading, and the retry link that is shown in place of
\* the list when its load has failed: both call the loader.
RefreshOthers ==
    /\ ListsShown
    /\ ~listLoading["others"]
    /\ Issue(<<loadOthers>>)
    /\ listEvent' = NoListEvent
    /\ UNCHANGED <<featureProduct, featurePage, featureSearch,
                   featureTotal, featuresShown, listShown>>
    /\ SessionKept
    /\ UnchangedExcept("lists")

RefreshUntagged ==
    /\ ListsShown
    /\ ~listLoading["untagged"]
    /\ Issue(<<loadUntagged>>)
    /\ listEvent' = NoListEvent
    /\ UNCHANGED <<featureProduct, featurePage, featureSearch,
                   featureTotal, featuresShown, listShown>>
    /\ SessionKept
    /\ UnchangedExcept("lists")

\* The select of the feature list: setFeatureProduct, setFeaturePage(1), and
\* the effect loads the list of the new render.
SelectProduct ==
    \E prod \in FeatureProducts :
        /\ ListsShown
        /\ prod # featureProduct
        /\ featureProduct' = prod
        /\ featurePage' = 1
        /\ Issue(<<loadFeaturesOf(prod, 1, featureSearch)>>)
        /\ listEvent' = NoListEvent
        /\ UNCHANGED <<featureSearch, featureTotal, featuresShown, listShown>>
        /\ SessionKept
        /\ UnchangedExcept("lists")

\* Typing in the search box: setFeatureSearch, which no effect depends on.
TypeSearch ==
    \E search \in Searches :
        /\ ListsShown
        /\ search # featureSearch
        /\ featureSearch' = search
        /\ listEvent' = NoListEvent
        /\ UNCHANGED <<featureProduct, featurePage, featureTotal,
                       featuresShown, listShown,
                       listLoading, listError, listRequests, issued>>
        /\ SessionKept
        /\ UnchangedExcept("lists")

\* The Enter key in the search box: loadFeatures(featureProduct, 1,
\* featureSearch), and nothing else.
SearchEnter ==
    /\ ListsShown
    /\ Issue(<<loadFeaturesOf(featureProduct, 1, featureSearch)>>)
    /\ listEvent' = NoListEvent
    /\ UNCHANGED <<featureProduct, featurePage, featureSearch,
                   featureTotal, featuresShown, listShown>>
    /\ SessionKept
    /\ UnchangedExcept("lists")

\* The search button: setFeaturePage(1) and loadFeatures(featureProduct, 1,
\* featureSearch); when the page was not 1 the effect loads the same again.
SearchButton ==
    /\ ListsShown
    /\ featurePage' = 1
    /\ Issue(<<loadFeaturesOf(featureProduct, 1, featureSearch)>>
             \o (IF featurePage # 1
                 THEN <<loadFeaturesOf(featureProduct, 1, featureSearch)>>
                 ELSE <<>>))
    /\ listEvent' = NoListEvent
    /\ UNCHANGED <<featureProduct, featureSearch, featureTotal, featuresShown, listShown>>
    /\ SessionKept
    /\ UnchangedExcept("lists")

\* The previous button, disabled on page 1: setFeaturePage(Math.max(1,
\* featurePage - 1)), and the effect loads the page.
PrevPage ==
    /\ ListsShown
    /\ ~(featurePage <= 1)
    /\ featurePage' = IF featurePage - 1 > 1 THEN featurePage - 1 ELSE 1
    /\ Issue(<<loadFeaturesOf(featureProduct, featurePage', featureSearch)>>)
    /\ listEvent' = NoListEvent
    /\ UNCHANGED <<featureProduct, featureSearch, featureTotal, featuresShown, listShown>>
    /\ SessionKept
    /\ UnchangedExcept("lists")

\* The next button, disabled on the last page: setFeaturePage(featurePage +
\* 1), and the effect loads the page.
NextPage ==
    /\ ListsShown
    /\ ~(featurePage * pageSize >= featureTotal)
    /\ featurePage' = featurePage + 1
    /\ Issue(<<loadFeaturesOf(featureProduct, featurePage', featureSearch)>>)
    /\ listEvent' = NoListEvent
    /\ UNCHANGED <<featureProduct, featureSearch, featureTotal, featuresShown, listShown>>
    /\ SessionKept
    /\ UnchangedExcept("lists")

\* The retry link, shown in place of the list when the load has failed.
RetryFeatures ==
    /\ ListsShown
    /\ ~listLoading["features"]
    /\ listError["features"] # Null
    /\ Issue(<<loadFeaturesOf(featureProduct, featurePage, featureSearch)>>)
    /\ listEvent' = NoListEvent
    /\ UNCHANGED <<featureProduct, featurePage, featureSearch,
                   featureTotal, featuresShown, listShown>>
    /\ SessionKept
    /\ UnchangedExcept("lists")

\* The list of features is on the screen, with its cards.
FeaturesDisplayed ==
    /\ ListsShown
    /\ ~listLoading["features"]
    /\ listError["features"] = Null

\* The list on the screen has a card: features.length === 0 shows the line
\* of the empty list in place of the cards, whatever the total is.
CardsDisplayed == FeaturesDisplayed /\ featuresShown > 0

\* The button of the form is disabled while addingFeature is set, which it is
\* from the click until the POST has been answered.
AddEnabled ==
    /\ ListsShown
    /\ \A i \in 1..Len(listRequests) : listRequests[i].list # "add"

\* updateFeatureTags, editFeature and deleteFeature of a card, and addFeature
\* of the form: the POST is sent; the handler keeps the product, the page and
\* the search of the render it was created in.  addFeature reloads
\* ('youware', 1, '').
WriteFeature ==
    \E kind \in WriteKinds :
        /\ IF kind = "add" THEN AddEnabled ELSE CardsDisplayed
        /\ Len(listRequests) < MaxListRequests
        /\ issued < MaxIssued
        /\ listRequests' =
              Append(listRequests,
                     ListRequest(IF kind = "add"
                                 THEN Call(kind, "youware", 1, "")
                                 ELSE Call(kind, featureProduct, featurePage,
                                           featureSearch),
                                 issued + 1))
        /\ issued' = issued + 1
        /\ listEvent' = NoListEvent
        /\ UNCHANGED <<featureProduct, featurePage, featureSearch,
                       featureTotal, featuresShown, listShown,
                       listLoading, listError>>
        /\ SessionKept
        /\ UnchangedExcept("lists")

\* handleLogout, called by a handler that was answered 401.
LogoutOn401(is401) ==
    IF is401
    THEN /\ localStorageToken' = Null
         /\ authToken' = Null
         /\ isAuthenticated' = FALSE
         /\ scriptLogs' = "empty"
         /\ UNCHANGED <<requests, lastResponse, mounted>>
    ELSE SessionKept

\* The POST of a write is answered.  An ok response has the feature list
\* loaded with the arguments the handler kept, for addFeature after a timer
\* of 2 seconds; a 401 logs out; anything else loads nothing.
WriteAnswered ==
    \E i \in 1..Len(listRequests), status \in Statuses :
        /\ listRequests[i].list \in WriteKinds
        /\ IF status = "ok" /\ listRequests[i].list = "add"
           THEN /\ listRequests' =
                      [listRequests EXCEPT ![i] = [@ EXCEPT !.list = "timer"]]
                /\ UNCHANGED <<issued, listLoading, listError>>
           ELSE IF status = "ok"
           THEN IssueOn(RemoveAt(listRequests, i),
                        <<loadFeaturesOf(listRequests[i].product,
                                         listRequests[i].page,
                                         listRequests[i].search)>>)
           ELSE /\ listRequests' = RemoveAt(listRequests, i)
                /\ UNCHANGED <<issued, listLoading, listError>>
        /\ LogoutOn401(status = "401")
        /\ listEvent' = NoListEvent
        /\ UNCHANGED <<featureProduct, featurePage, featureSearch,
                       featureTotal, featuresShown, listShown>>
        /\ UnchangedExcept("lists")

\* The timer of addFeature fires: loadFeatures('youware', 1, '').
AddTimerFires ==
    \E i \in 1..Len(listRequests) :
        /\ listRequests[i].list = "timer"
        /\ IssueOn(RemoveAt(listRequests, i),
                   <<loadFeaturesOf("youware", 1, "")>>)
        /\ listEvent' = NoListEvent
        /\ UNCHANGED <<featureProduct, featurePage, featureSearch,
                       featureTotal, featuresShown, listShown>>
        /\ SessionKept
        /\ UnchangedExcept("lists")

\* What a loader sets when it ends: the list on an ok response, the error on
\* a status that is neither ok nor 401, on a rejection and on an abort.
shownAfter(r, outcome) ==
    IF outcome = "ok"
    THEN [listShown EXCEPT ![r.list] =
             [seq |-> r.seq, product |-> r.product, page |-> r.page,
              search |-> r.search]]
    ELSE listShown

\* errorAfter without the catch block: a rejection and an abort set nothing.
errorAfter_NoCatch(r, outcome) ==
    IF outcome = "status"
    THEN [listError EXCEPT ![r.list] = ErrorOf(outcome)]
    ELSE listError

errorAfter(r, outcome) ==
    IF outcome \in {"status", "network", "timeout"}
    THEN [listError EXCEPT ![r.list] = ErrorOf(outcome)]
    ELSE listError

\* The finally block: setOthersLoading(false) and its like.
loadingAfter(r, outcome) == [listLoading EXCEPT ![r.list] = FALSE]

\* The loader of request i ends with the outcome.
Finish(i, r, outcome) ==
    /\ listRequests' = RemoveAt(listRequests, i)
    /\ listShown' = shownAfter(r, outcome)
    /\ listError' = errorAfter(r, outcome)
    /\ listLoading' = loadingAfter(r, outcome)
    /\ listEvent' = [list |-> r.list, outcome |-> outcome, seq |-> r.seq]
    /\ LogoutOn401(outcome = "401")
    /\ UNCHANGED <<featureProduct, featurePage, featureSearch, issued>>

\* The fetch of a loader resolves with the status line of the response, and
\* the abort timer is cleared.  A 401 calls handleLogout; otherwise the body
\* is read next, response.json() of an ok response and response.text() of
\* any other.
fetchResolves ==
    \E i \in 1..Len(listRequests), status \in {"ok", "401", "500"} :
        /\ listRequests[i].list \in ListNames
        /\ listRequests[i].phase = "fetching"
        /\ IF status = "401"
           THEN Finish(i, listRequests[i], "401")
           ELSE /\ listRequests' =
                      [listRequests EXCEPT ![i] =
                          [@ EXCEPT !.phase = "body", !.status = status]]
                /\ listEvent' = NoListEvent
                /\ UNCHANGED <<featureProduct, featurePage, featureSearch,
                               issued, listShown, listLoading, listError>>
                /\ SessionKept
        /\ UNCHANGED <<featureTotal, featuresShown>>
        /\ UnchangedExcept("lists")

\* The body has been read: the list is set (and the total of the feature
\* list, which the response gives apart from the list), or the error of the
\* status.
bodyRead ==
    \E i \in 1..Len(listRequests), total \in Totals, length \in Lengths :
        /\ listRequests[i].list \in ListNames
        /\ listRequests[i].phase = "body"
        /\ Finish(i, listRequests[i],
                  IF listRequests[i].status = "ok" THEN "ok" ELSE "status")
        /\ featureTotal' =
              IF listRequests[i].status = "ok"
                 /\ listRequests[i].list = "features"
              THEN total ELSE featureTotal
        /\ featuresShown' =
              IF listRequests[i].status = "ok"
                 /\ listRequests[i].list = "features"
              THEN length ELSE featuresShown
        /\ UnchangedExcept("lists")

\* The fetch, or the reading of the body, is rejected: the catch block sets
\* the error of a failed load.
fetchRejects ==
    \E i \in 1..Len(listRequests) :
        /\ listRequests[i].list \in ListNames
        /\ Finish(i, listRequests[i], "network")
        /\ UNCHANGED <<featureTotal, featuresShown>>
        /\ UnchangedExcept("lists")

\* The abort timer fires, which it does only while the fetch is pending:
\* the fetch is rejected with an AbortError.
abortFires ==
    \E i \in 1..Len(listRequests) :
        /\ listRequests[i].list \in ListNames
        /\ listRequests[i].phase = "fetching"
        /\ listRequests[i].elapsed >= requestTimeout
        /\ Finish(i, listRequests[i], "timeout")
        /\ UNCHANGED <<featureTotal, featuresShown>>
        /\ UnchangedExcept("lists")

\* An abort timer that is due: time does not pass before it has fired.
TimerDue ==
    \E i \in 1..Len(listRequests) :
        /\ listRequests[i].list \in ListNames
        /\ listRequests[i].phase = "fetching"
        /\ listRequests[i].elapsed >= requestTimeout

\* Time passes for the loads in flight.
Tick ==
    /\ ~TimerDue
    /\ \E i \in 1..Len(listRequests) :
          listRequests[i].list \in ListNames
          /\ listRequests[i].elapsed < MaxElapsed
    /\ listRequests' =
          [i \in 1..Len(listRequests) |->
              IF listRequests[i].list \in ListNames
                 /\ listRequests[i].elapsed < MaxElapsed
              THEN [listRequests[i] EXCEPT !.elapsed = @ + TickMs]
              ELSE listRequests[i]]
    /\ listEvent' = NoListEvent
    /\ UNCHANGED <<featureProduct, featurePage, featureSearch,
                   featureTotal, featuresShown, listShown, listLoading, listError, issued>>
    /\ SessionKept
    /\ UnchangedExcept("lists")

\* The authenticated console once the loads of the post-login effect have
\* been answered ok: the feature list is that of ('youware', 1, '').
InitLists ==
    /\ featureProduct = "youware"
    /\ featurePage = 1
    /\ featureSearch = ""
    /\ listError = [n \in ListNames |-> Null]
    /\ listShown =
          [n \in ListNames |->
              IF n = "features"
              THEN [seq |-> 0, product |-> "youware", page |-> 1,
                    search |-> ""]
              ELSE InitialList]
    /\ featureTotal \in Totals
    /\ featuresShown \in Lengths
    /\ listLoading = [n \in ListNames |-> FALSE]
    /\ listRequests = <<>>
    /\ listEvent = NoListEvent
    /\ issued = 0
    /\ localStorageToken = "token-1"
    /\ authToken = localStorageToken
    /\ isAuthenticated = TRUE
    /\ scriptLogs = "empty"
    /\ requests = <<>>
    /\ lastResponse = NoResponse
    /\ mounted = TRUE
    /\ IdleExcept("lists")

\* The three loaders, started by hand, and time.
NextLists ==
    \/ RefreshOthers \/ RefreshUntagged \/ SearchEnter \/ RetryFeatures
    \/ fetchResolves \/ bodyRead \/ fetchRejects \/ abortFires \/ Tick

SpecLists == InitLists /\ [][NextLists]_vars

\* The feature list with all its controls and the writes of its cards.
NextFeatures ==
    \/ SelectProduct \/ TypeSearch \/ SearchEnter \/ SearchButton
    \/ PrevPage \/ NextPage \/ RetryFeatures
    \/ WriteFeature \/ WriteAnswered \/ AddTimerFires
    \/ fetchResolves \/ bodyRead \/ fetchRejects

SpecFeatures == InitLists /\ [][NextFeatures]_vars

-----------------------------------------------------------------------------
(* pages/AdminPage, FeatureTagCard: the tags of a feature being edited *)

MaxCardTags == 2      \* entries of the list the editing starts from
MaxCardSubtags == 2   \* subtags of an entry of that list

CardPrimaries == {"UI", "AI"}       \* options of the first select
CardSubtags == {"Forms", "Chat"}    \* options of the second select

NoCardEvent == [op |-> "none", primary |-> "", subtag |-> "", before |-> <<>>]

\* normalizeTags: the tags of the feature when they are an array, and []
\* for null, undefined, the string 'None' and every other string.
normalizeTags(v) == IF IsArray(v) THEN v.items ELSE <<>>

\* t.subtags.some(s => s.name === selectedSubtag)
hasSubtag(entry, subtag) ==
    \E k \in 1..Len(entry.subtags) : entry.subtags[k] = subtag

\* editedTags.find(t => t.name === selectedPrimary) finds an entry.
hasPrimary(ts, primary) == \E i \in 1..Len(ts) : ts[i].name = primary

firstNamed(ts, primary) ==
    ts[CHOOSE i \in 1..Len(ts) :
          /\ ts[i].name = primary
          /\ \A j \in 1..(i - 1) : ts[j].name # primary]

\* The list addTag sets: nothing changes without both selections; an entry
\* of the primary that lacks the subtag has it appended (every entry of that
\* name, when the first one lacks it); a primary that is not there gets a
\* new entry at the end.
addedTags(ts, primary, subtag) ==
    IF primary = "" \/ subtag = "" THEN ts
    ELSE IF hasPrimary(ts, primary)
    THEN IF hasSubtag(firstNamed(ts, primary), subtag) THEN ts
         ELSE [i \in 1..Len(ts) |->
                  IF ts[i].name = primary
                  THEN [ts[i] EXCEPT !.subtags = Append(@, subtag)]
                  ELSE ts[i]]
    ELSE Append(ts, [name |-> primary, subtags |-> <<subtag>>])

\* t.subtags.filter(s => s.name !== subtagName)
withoutSubtag(subtags, subtag) ==
    SelectSeq(subtags, LAMBDA s : s # subtag)

\* removeSubtag with the entries that lose their last subtag kept.
removedSubtag_KeepsEmpty(ts, primary, subtag) ==
    [i \in 1..Len(ts) |->
        IF ts[i].name = primary
        THEN [ts[i] EXCEPT !.subtags = withoutSubtag(@, subtag)]
        ELSE ts[i]]

\* The list removeSubtag sets: the entries of the primary lose the subtag,
\* and those left with no subtag are dropped.
removedSubtag(ts, primary, subtag) ==
    SelectSeq([i \in 1..Len(ts) |->
                  IF ts[i].name = primary
                  THEN [ts[i] EXCEPT !.subtags = withoutSubtag(@, subtag)]
                  ELSE ts[i]],
              LAMBDA t : ~(t.name = primary /\ t.subtags = <<>>))

\* The first select: setSelectedPrimary and setSelectedSubtag('').
SelectPrimary ==
    \E primary \in CardPrimaries \cup {""} :
        /\ primary # selectedPrimary
        /\ selectedPrimary' = primary
        /\ selectedSubtag' = ""
        /\ cardEvent' = NoCardEvent
        /\ UNCHANGED <<cardFeature, editedTags>>
        /\ UnchangedExcept("card")

\* The second select, rendered once a primary is selected.
SelectSubtag ==
    \E subtag \in CardSubtags \cup {""} :
        /\ selectedPrimary # ""
        /\ subtag # selectedSubtag
        /\ selectedSubtag' = subtag
        /\ cardEvent' = NoCardEvent
        /\ UNCHANGED <<cardFeature, editedTags, selectedPrimary>>
        /\ UnchangedExcept("card")

\* The add button, disabled without both selections.
addTag ==
    /\ selectedPrimary # "" /\ selectedSubtag # ""
    /\ editedTags' = addedTags(editedTags, selectedPrimary, selectedSubtag)
    /\ selectedPrimary' = ""
    /\ selectedSubtag' = ""
    /\ cardEvent' = [op |-> "addTag", primary |-> selectedPrimary,
                     subtag |-> selectedSubtag, before |-> editedTags]
    /\ UNCHANGED cardFeature
    /\ UnchangedExcept("card")

\* The cross of a chip: removeSubtag(tag.name, st.name).
removeSubtag ==
    \E i \in 1..Len(editedTags) :
        \E k \in 1..Len(editedTags[i].subtags) :
            /\ editedTags' = removedSubtag(editedTags, editedTags[i].name,
                                           editedTags[i].subtags[k])
            /\ cardEvent' = [op |-> "removeSubtag",
                             primary |-> editedTags[i].name,
                             subtag |-> editedTags[i].subtags[k],
                             before |-> editedTags]
            /\ UNCHANGED <<cardFeature, selectedPrimary, selectedSubtag>>
            /\ UnchangedExcept("card")

\* An entry of the tags of a feature as the server sends it: a primary name
\* with a list of subtags, which may be empty and may repeat a subtag.  The
\* lists are those that are empty or start with Forms.
CardEntries ==
    {[name |-> n, subtags |-> q] :
        n \in CardPrimaries,
        q \in {r \in SeqsUpTo(CardSubtags, MaxCardSubtags) :
                  r = <<>> \/ r[1] = "Forms"}}

\* A list of tags with distinct primary names, each with at least one subtag
\* and no subtag twice.
WellFormedTags(ts) ==
    /\ \A i, j \in 1..Len(ts) : i # j => ts[i].name # ts[j].name
    /\ \A i \in 1..Len(ts) :
          /\ ts[i].subtags # <<>>
          /\ \A k, l \in 1..Len(ts[i].subtags) :
                k # l => ts[i].subtags[k] # ts[i].subtags[l]

\* The tags of a feature as the server sends them: a list of entries, the
\* first of them of the primary UI and any two of them of one primary or of
\* two, or no array at all.
CardFeatureTags ==
    {Arr(ts) : ts \in {q \in SeqsUpTo(CardEntries, MaxCardTags) :
                          q = <<>> \/ q[1].name = "UI"}}
        \cup {Missing, NoneString}

\* The card as it mounts: useState(normalizeTags(feature.tags)).
InitCard ==
    /\ cardFeature \in CardFeatureTags
    /\ editedTags = normalizeTags(cardFeature)
    /\ selectedPrimary = ""
    /\ selectedSubtag = ""
    /\ cardEvent = NoCardEvent
    /\ IdleExcept("card")

\* The effect on [feature]: the list of features has been loaded again and
\* the card, kept by its key, is handed the feature as it is now on the
\* server; setEditedTags(normalizeTags(feature.tags)) replaces the edited
\* list, and the two selects keep their values.
FeatureChanged ==
    \E v \in CardFeatureTags :
        /\ cardFeature' = v
        /\ editedTags' = normalizeTags(v)
        /\ cardEvent' = [NoCardEvent EXCEPT !.op = "effect"]
        /\ UNCHANGED <<selectedPrimary, selectedSubtag>>
        /\ UnchangedExcept("card")

NextCard ==
    SelectPrimary \/ SelectSubtag \/ addTag \/ removeSubtag \/ FeatureChanged

SpecCard == InitCard /\ [][NextCard]_vars

-----------------------------------------------------------------------------
(* hooks/useData: loadData, and what App renders from it *)

MaxFiles == 3    \* product documents loaded: the first keys of STORAGE_FILES

Files == SubSeq(STORAGE_FILES, 1, MaxFiles)

FileSet == {Files[i] : i \in 1..Len(Files)}

\* How the fetch of tag.json ends: an ok response with a JSON body, an ok
\* response whose body is not JSON, a response that is not ok, a rejected fetch.
TagOutcomes == {"ok", "invalid-json", "non-ok", "network"}

\* How the fetch of a product document ends: an ok response holding the app
\* info and the feature record, the app info only, no app info, a body that
\* is not JSON; a response that is not ok; a rejected fetch.
DocOutcomes ==
    {"full", "no-features", "no-app-info", "invalid-json", "non-ok", "network"}

NullResult == [kind |-> "null", product |-> MakeProduct("", Arr(<<>>))]

RejectedResult == [kind |-> "rejected", product |-> MakeProduct("", Arr(<<>>))]

\* The features of the feature record of a document: featureData?.features
DocFeatures(outcome) ==
    IF outcome = "full"
    THEN Arr(<<MakeFeature(1, "2024-03-05 some text", Missing)>>)
    ELSE Missing

\* The promise of one document without its try/catch: a rejected fetch and a
\* body that is not JSON reject the promise.
productPromise_NoCatch(fileName, outcome) ==
    IF outcome \in {"network", "invalid-json"} THEN RejectedResult
    ELSE IF outcome \in {"non-ok", "no-app-info"} THEN NullResult
    ELSE [kind |-> "product",
          product |-> MakeProduct(fileName, OrEmpty(DocFeatures(outcome)))]

\* The promise of one document: it resolves to the product, or to null when
\* the response is not ok, when no app info is found, and when the fetch or
\* the decoding throws.
productPromise(fileName, outcome) ==
    IF outcome \in {"network", "invalid-json"} THEN NullResult
    ELSE IF outcome \in {"non-ok", "no-app-info"} THEN NullResult
    ELSE [kind |-> "product",
          product |-> MakeProduct(fileName, OrEmpty(DocFeatures(outcome)))]

\* The products of the keys in order, with the nulls filtered out
ProductsOf(keys, results) ==
    LET all == [i \in 1..Len(keys) |-> results[keys[i]]]
        kept == SelectSeq(all, LAMBDA r : r.kind # "null")
    IN  [i \in 1..Len(kept) |-> kept[i].product]

\* The same list in the order the fetches completed.
loadedProducts_CompletionOrder(results) == ProductsOf(settled, results)

\* (await Promise.all(productPromises)).filter(p => p !== null)
loadedProducts(results) == ProductsOf(Files, results)

\* The error shown for no failure at all.
errorOf_Swallowed(outcome) == "<null>"

\* err instanceof Error ? err.message : 'Unknown error', for the ways the tag
\* document fails.
errorOf(outcome) ==
    CASE outcome = "non-ok" -> "Failed to load tags"
      [] outcome = "network" -> "message of the rejected fetch"
      [] outcome = "invalid-json" -> "message of the SyntaxError"
      [] OTHER -> "Unknown error"

\* App: the loading screen, the error with its Retry button, or the pages.
App ==
    IF loading THEN "Loading data..."
    ELSE IF error # Null THEN "Error and Retry"
    ELSE "pages"

\* loadData up to its first await.
loadData(trigger) ==
    /\ loading' = TRUE
    /\ error' = Null
    /\ loadPhase' = "tags"
    /\ loadTrigger' = trigger
    /\ tagFetch' = "pending"
    /\ productFetches' = [f \in FileSet |-> "idle"]
    /\ settled' = <<>>
    /\ assigned' = 0
    /\ UNCHANGED <<hookTags, hookProducts>>
    /\ UnchangedExcept("load")

\* useEffect(() => { loadData() }, [loadData])
Mount == loadPhase = "unmounted" /\ loadData("mount")

\* The Retry button of the error screen.
Retry == loadPhase = "done" /\ App = "Error and Retry" /\ loadData("retry")

\* The Refresh button of the navigation bar.
Refresh == loadPhase = "done" /\ App = "pages" /\ loadData("refresh")

\* The fetch of tag.json is answered: the tags are set and every product
\* fetch is started, or the load ends with the error.
TagsAnswered ==
    \E outcome \in TagOutcomes :
        /\ loadPhase = "tags"
        /\ tagFetch' = outcome
        /\ IF outcome = "ok"
           THEN /\ hookTags' = "loaded"
                /\ productFetches' = [f \in FileSet |-> "pending"]
                /\ loadPhase' = "products"
                /\ UNCHANGED <<loading, error>>
           ELSE /\ error' = errorOf(outcome)
                /\ loading' = FALSE
                /\ loadPhase' = "done"
                /\ UNCHANGED <<hookTags, productFetches>>
        /\ UNCHANGED <<hookProducts, loadTrigger, settled, assigned>>
        /\ UnchangedExcept("load")

\* The fetch of one product document settles.
ProductAnswered ==
    \E f \in FileSet, outcome \in DocOutcomes :
        /\ loadPhase = "products"
        /\ productFetches[f] = "pending"
        /\ productFetches' = [productFetches EXCEPT ![f] = outcome]
        /\ settled' = Append(settled, f)
        /\ UNCHANGED <<hookTags, hookProducts, loading, error, loadPhase,
                       loadTrigger, tagFetch, assigned>>
        /\ UnchangedExcept("load")

\* Promise.all has settled: the products are set and loading ends; a rejected
\* promise would end the load with the error instead.
joinProducts ==
    LET results == [f \in FileSet |-> productPromise(f, productFetches[f])]
    IN  /\ loadPhase = "products"
        /\ \A f \in FileSet : productFetches[f] # "pending"
        /\ IF \E f \in FileSet : results[f].kind = "rejected"
           THEN /\ error' = errorOf("network")
                /\ UNCHANGED <<hookProducts, assigned>>
           ELSE /\ hookProducts' = loadedProducts(results)
                /\ assigned' = assigned + 1
                /\ UNCHANGED error
        /\ loading' = FALSE
        /\ loadPhase' = "done"
        /\ UNCHANGED <<hookTags, loadTrigger, tagFetch, productFetches, settled>>
        /\ UnchangedExcept("load")

InitLoad ==
    /\ hookTags = "initial"
    /\ hookProducts = <<>>
    /\ loading = TRUE
    /\ error = Null
    /\ loadPhase = "unmounted"
    /\ loadTrigger = "none"
    /\ tagFetch = "idle"
    /\ productFetches = [f \in FileSet |-> "idle"]
    /\ settled = <<>>
    /\ assigned = 0
    /\ IdleExcept("load")

NextLoad ==
    \/ Mount \/ Retry \/ Refresh
    \/ TagsAnswered \/ ProductAnswered \/ joinProducts

SpecLoad == InitLoad /\ [][NextLoad]_vars

-----------------------------------------------------------------------------
(* Claims about the taxonomy functions *)

\* Every tag of the taxonomy has a subtags array, as the type Tag requires.
WellFormedTaxonomy(ts) == \A i \in 1..Len(ts) : IsArray(ts[i].subtags)

\* max(1, |subtags|): the rows tag i contributes.
RowsOfTag(ts, i) ==
    IF Len(ts[i].subtags.items) = 0 THEN 1 ELSE Len(ts[i].subtags.items)

RECURSIVE RowsBefore(_, _)
RowsBefore(ts, i) ==
    IF i <= 1 THEN 0 ELSE RowsBefore(ts, i - 1) + RowsOfTag(ts, i - 1)

\* C1: flattenTags emits rows in input tag order and, within a tag, in input
\* subtag order: the rows of tag i start right after those of tags 1..i-1; a
\* tag with subtags gives one row per subtag, in order, and a tag with none
\* gives exactly one row (name, "Other") with both descriptions the tag's; the
\* number of rows is the sum over the tags of max(1, number of subtags).
C1_FlattenRows ==
    (tagCall = "flattenTags" /\ WellFormedTaxonomy(tags)) =>
        /\ ~tagOut.threw
        /\ Len(tagOut.rows) = RowsBefore(tags, Len(tags) + 1)
        /\ \A i \in 1..Len(tags) :
              LET base == RowsBefore(tags, i)
                  subs == tags[i].subtags.items
              IN  IF Len(subs) = 0
                  THEN /\ tagOut.rows[base + 1].primaryTag = tags[i].name
                       /\ tagOut.rows[base + 1].secondaryTag = "Other"
                       /\ tagOut.rows[base + 1].primaryDescription
                              = tags[i].description
                       /\ tagOut.rows[base + 1].secondaryDescription
                              = tags[i].description
                  ELSE \A j \in 1..Len(subs) :
                       /\ tagOut.rows[base + j].primaryTag = tags[i].name
                       /\ tagOut.rows[base + j].secondaryTag = subs[j].name
                       /\ tagOut.rows[base + j].primaryDescription
                              = tags[i].description
                       /\ tagOut.rows[base + j].secondaryDescription
                              = subs[j].description

\* flattenTags has run on a taxonomy that holds a tag without subtags followed
\* by a tag with two subtags.
C1_Witness ==
    /\ tagCall = "flattenTags"
    /\ WellFormedTaxonomy(tags)
    /\ Len(tags) = 2
    /\ Len(tags[1].subtags.items) = 0
    /\ Len(tags[2].subtags.items) = 2
    /\ Len(tagOut.rows) = 3
    /\ tagOut.rows[1].secondaryTag = "Other"

\* C5 (as claimed): no function of the Tag Matrix Model throws on malformed
\* input; a missing collection is treated as empty.  Here: the taxonomy
\* functions never throw, whatever taxonomy they are given.
C5_TaxonomyFunctionsNeverThrow == ~tagOut.threw

\* C15: getSubtags(tags, p) returns the names of the subtags of the tag named
\* p (the first one, should the name occur twice) in their order, <<"Other">>
\* when that tag has no subtags, and the empty list when no tag is named p.
C15_GetSubtags ==
    (tagCall = "getSubtags" /\ WellFormedTaxonomy(tags)) =>
        LET named == {i \in 1..Len(tags) : tags[i].name = tagQuery}
        IN  /\ ~tagOut.threw
            /\ IF named = {} THEN tagOut.names = <<>>
               ELSE LET i == CHOOSE k \in named : \A m \in named : k <= m
                        subs == tags[i].subtags.items
                    IN  IF subs = <<>> THEN tagOut.names = <<"Other">>
                        ELSE tagOut.names = [k \in 1..Len(subs) |-> subs[k].name]

\* getSubtags has answered <<"Other">> for the second tag of a taxonomy, which
\* has no subtags, the first tag having another name and two subtags.
C15_Witness ==
    /\ tagCall = "getSubtags"
    /\ WellFormedTaxonomy(tags)
    /\ Len(tags) = 2
    /\ tags[1].name # tagQuery
    /\ Len(tags[1].subtags.items) = 2
    /\ tags[2].name = tagQuery
    /\ tags[2].subtags.items = <<>>
    /\ tagOut.names = <<"Other">>

-----------------------------------------------------------------------------
(* Claims about the product functions *)

\* The product has a features array, and the subtags of every tag of every
\* feature is an array or is missing.
WellTypedProduct(prod) ==
    /\ IsArray(prod.features)
    /\ \A i \in 1..Len(prod.features.items) :
          LET f == prod.features.items[i]
          IN  IsArray(f.tags) =>
                  \A j \in 1..Len(f.tags.items) :
                      f.tags.items[j].subtags.kind # "string"

\* Feature f carries a tag named p that has no subtags when s is "Other", and
\* has a subtag named s otherwise.
Carries(f, p, s) ==
    /\ IsArray(f.tags)
    /\ \E j \in 1..Len(f.tags.items) :
          LET t == f.tags.items[j]
          IN  /\ t.name = p
              /\ IF s = "Other"
                 THEN t.subtags.kind = "undefined"
                        \/ (IsArray(t.subtags) /\ Len(t.subtags.items) = 0)
                 ELSE /\ IsArray(t.subtags)
                      /\ \E k \in 1..Len(t.subtags.items) :
                            t.subtags.items[k].name = s

\* C2: productHasTag(product, p, s) is true iff some feature of the product
\* carries a tag named p that, when s is "Other", has an empty subtags list
\* (a missing list counts as empty) and otherwise has a subtag named s.
C2_ProductHasTagIff ==
    (prodCall = "productHasTag" /\ WellTypedProduct(product)) =>
        /\ ~prodOut.threw
        /\ prodOut.has <=>
              \E i \in 1..Len(product.features.items) :
                  Carries(product.features.items[i], primaryTag, secondaryTag)

\* productHasTag(product, p, "Other") has answered true for a product whose
\* first feature carries p with subtags and whose second carries p with none.
C2_Witness ==
    /\ prodCall = "productHasTag"
    /\ secondaryTag = "Other"
    /\ prodOut.has
    /\ IsArray(product.features)
    /\ Len(product.features.items) = 2
    /\ ~Carries(product.features.items[1], primaryTag, "Other")
    /\ Carries(product.features.items[1], primaryTag, "Forms")
    /\ Carries(product.features.items[2], primaryTag, "Other")

\* The product with every malformed tags field replaced by an empty array.
WithoutMalformedTags(prod) ==
    [prod EXCEPT !.features.items =
        [i \in 1..Len(prod.features.items) |->
            IF IsArray(prod.features.items[i].tags)
            THEN prod.features.items[i]
            ELSE [prod.features.items[i] EXCEPT !.tags = Arr(<<>>)]]]

HasMalformedTags(prod) ==
    /\ IsArray(prod.features)
    /\ \E i \in 1..Len(prod.features.items) :
          ~IsArray(prod.features.items[i].tags)

\* C6: a feature whose tags field is malformed ("None", undefined) is treated
\* as a feature with zero tags and makes none of productHasTag,
\* getProductTagFeatures and getTagFeatures throw: the outcome is the one
\* for the same product with that field replaced by [], a feature with a
\* malformed field is never among the features returned, and a product all of
\* whose features are malformed matches no pair, (p, "Other") included.
C6_MalformedTagsAreNoTags ==
    (prodCall # "none" /\ HasMalformedTags(product)) =>
        /\ prodCall = "productHasTag" =>
              LET r == productHasTag(WithoutMalformedTags(product),
                                     primaryTag, secondaryTag)
              IN  prodOut.threw = r.threw /\ prodOut.has = r.has
        /\ prodCall = "getProductTagFeatures" =>
              LET r == getProductTagFeatures(WithoutMalformedTags(product),
                                             primaryTag, secondaryTag)
              IN  /\ prodOut.threw = r.threw
                  /\ Len(prodOut.features) = Len(r.features)
                  /\ \A k \in 1..Len(r.features) :
                        /\ prodOut.features[k].title = r.features[k].title
                        /\ IsArray(prodOut.features[k].tags)
        /\ prodCall = "getTagFeatures" =>
              LET r == getTagFeatures(<<WithoutMalformedTags(product)>>,
                                      primaryTag, secondaryTag, engine)
              IN  /\ prodOut.threw = r.threw
                  /\ Len(prodOut.features) = Len(r.items)
                  /\ \A k \in 1..Len(r.items) :
                        /\ prodOut.features[k].product = product
                        /\ prodOut.features[k].feature.title
                              = r.items[k].feature.title
                        /\ IsArray(prodOut.features[k].feature.tags)
        /\ (\A i \in 1..Len(product.features.items) :
                ~IsArray(product.features.items[i].tags)) =>
              /\ ~prodOut.threw
              /\ ~prodOut.has
              /\ prodOut.features = <<>>

\* getTagFeatures has answered for a product whose first feature has the tags
\* "None": it did not throw and returned the second feature alone.
C6_Witness ==
    /\ prodCall = "getTagFeatures"
    /\ IsArray(product.features)
    /\ Len(product.features.items) = 2
    /\ product.features.items[1].tags = NoneString
    /\ ~prodOut.threw
    /\ Len(prodOut.features) = 1
    /\ prodOut.features[1].feature = product.features.items[2]

\* productHasTag applied to the product that has this feature alone.
FeatureHasTag(f, p, s) == productHasTag(MakeProduct("youware", Arr(<<f>>)), p, s).has

\* C14: getProductTagFeatures(product, p, s) returns the features of the
\* product for which the predicate of productHasTag holds, in the order of
\* product.features and as they are; and productHasTag(product, p, s) is true
\* iff getProductTagFeatures(product, p, s) is not empty.
C14_FeaturesRefineHasTag ==
    (prodCall # "none" /\ WellTypedProduct(product)) =>
        /\ ~prodOut.threw
        /\ prodCall = "getProductTagFeatures" =>
              /\ prodOut.features =
                    SelectSeq(product.features.items,
                              LAMBDA f : FeatureHasTag(f, primaryTag, secondaryTag))
              /\ productHasTag(product, primaryTag, secondaryTag).has
                    <=> prodOut.features # <<>>
        /\ prodCall = "productHasTag" =>
              (prodOut.has <=>
                  getProductTagFeatures(product, primaryTag,
                                        secondaryTag).features # <<>>)

\* getProductTagFeatures has returned the second of two features alone: the
\* first has the tags "None", the second carries another tag before the tag
\* asked for.
C14_Witness ==
    /\ prodCall = "getProductTagFeatures"
    /\ IsArray(product.features)
    /\ Len(product.features.items) = 2
    /\ product.features.items[1].tags = NoneString
    /\ IsArray(product.features.items[2].tags)
    /\ Len(product.features.items[2].tags.items) = 2
    /\ product.features.items[2].tags.items[1].name # primaryTag
    /\ secondaryTag # "Other"
    /\ prodOut.features = <<product.features.items[2]>>

-----------------------------------------------------------------------------
(* Claims about getTagFeatures *)

\* The time string of the item can be parsed as a date: one of parseDate's
\* patterns is found in it and the engine makes a valid Date of it.
Parsable(item) ==
    /\ \/ FirstIsoPosition(item.feature.time) # 0
       \/ FirstSlashPosition(item.feature.time) # 0
    /\ ~parseDate(item.feature.time, engine).nan

\* C4 (as claimed): getTagFeatures returns its matches in descending order of
\* parsed date, and every item whose time string cannot be parsed as a date
\* comes after every item whose time string can.  Stated for the lenient
\* engine, which parses the most time strings.
C4_DescendingUnparsableLast ==
    (sortCall = "getTagFeatures" /\ engine.lenient) =>
        \A i, j \in 1..Len(sortOut.items) :
            i < j =>
                /\ (Parsable(sortOut.items[i]) /\ Parsable(sortOut.items[j])) =>
                      parseDate(sortOut.items[i].feature.time, engine).time
                        >= parseDate(sortOut.items[j].feature.time, engine).time
                /\ ~(~Parsable(sortOut.items[i]) /\ Parsable(sortOut.items[j]))

\* The matches in the order getTagFeatures pushes them: product by product,
\* and within a product feature by feature.
IterationOrder == collectFeatures(products, 1, "UI", "Forms", <<>>).items

PositionIn(list, x) == CHOOSE k \in 1..Len(list) : list[k] = x

\* The parsed dates of the two items are equal.
SameDate(a, b) ==
    LET dateA == parseDate(a.feature.time, engine)
        dateB == parseDate(b.feature.time, engine)
    IN  ~dateA.nan /\ ~dateB.nan /\ dateA.time = dateB.time

\* C16 (as claimed): two matches of getTagFeatures whose parsed dates are equal,
\* and two matches whose dates both cannot be parsed, come out in the order of
\* the iteration: products in input order and, within a product, features in
\* the order of its feature list.
C16_TiesKeepIterationOrder ==
    (sortCall = "getTagFeatures" /\ ~sortOut.threw) =>
        \A i, j \in 1..Len(sortOut.items) :
            LET a == sortOut.items[i]
                b == sortOut.items[j]
            IN  (i < j /\ (SameDate(a, b) \/ (~Parsable(a) /\ ~Parsable(b)))) =>
                    PositionIn(IterationOrder, a) < PositionIn(IterationOrder, b)

-----------------------------------------------------------------------------
(* Claims about the Matrix *)

\* Some feature of the product carries tag p with subtag s, or with no subtags
\* when the row is the (p, "Other") row synthesized for a tag without subtags.
ProductCarries(prod, row) ==
    \E i \in 1..Len(prod.features.items) :
        Carries(prod.features.items[i], row.primaryTag, row.secondaryTag)

\* C3: in every row the Matrix shows, the cell of a product is marked present
\* exactly when some feature of the product carries the row's tag with the
\* row's subtag (for a synthesized (p, "Other") row: carries p with no
\* subtags), and is shown absent otherwise.
C3_MatrixCells ==
    ~matrixView.crashed =>
        \A g \in 1..Len(matrixView.groups) :
            LET group == matrixView.groups[g]
            IN  group.isExpanded =>
                    \A r \in 1..Len(group.rows), k \in 1..Len(matrixProducts) :
                        group.cells[r][k]
                            <=> ProductCarries(matrixProducts[k], group.rows[r])

\* The configuration has been loaded and both groups are expanded: the row
\* (UI, Forms) shows the first product present and the second absent, and the
\* synthesized row (Infra, Other) shows a product present that carries Infra
\* with no subtags.
C3_Witness ==
    /\ ~matrixView.crashed
    /\ configFetch = "settled"
    /\ Len(matrixProducts) = 2
    /\ \E g \in 1..Len(matrixView.groups) :
          LET group == matrixView.groups[g]
          IN  /\ group.isExpanded
              /\ \E r \in 1..Len(group.rows) :
                    /\ group.rows[r].primaryTag = "UI"
                    /\ group.rows[r].secondaryTag = "Forms"
                    /\ group.cells[r][1]
                    /\ ~group.cells[r][2]
                    /\ ProductCarries(matrixProducts[1], group.rows[r])
    /\ \E g \in 1..Len(matrixView.groups) :
          LET group == matrixView.groups[g]
          IN  /\ group.isExpanded
              /\ \E r \in 1..Len(group.rows), k \in 1..2 :
                    /\ group.rows[r].primaryTag = "Infra"
                    /\ group.rows[r].secondaryTag = "Other"
                    /\ group.cells[r][k]
                    /\ ProductCarries(matrixProducts[k], group.rows[r])

-----------------------------------------------------------------------------
(* Claims about the admin console *)

\* The calls that carry the bearer token.
BearerCalls ==
    {"others", "untagged", "tags", "used-subtags", "logs", "features",
     "feature/add", "feature/edit", "feature/delete", "feature/update-tags",
     "card/update-tags", "feature/mark-none", "tag/rename", "others/update",
     "config"}

\* C7 (as claimed): once a bearer-authenticated call has been answered with a
\* 401, whichever call site sent it, the client is logged out: the stored
\* token is removed and the console is unauthenticated.
C7_Every401LogsOut ==
    (lastResponse.call \in BearerCalls /\ lastResponse.status = "401") =>
        /\ localStorageToken = Null
        /\ authToken = Null
        /\ ~isAuthenticated

-----------------------------------------------------------------------------
(* Claims about the polling of the jobs *)

\* C8 (as claimed): a polling loop performs at most 150 status checks in
\* total, and whatever the status endpoint answers, the next check is put on a
\* timer of 2 seconds once the previous one has finished.
C8_AtMost150Checks ==
    \A l \in 1..Len(loops) :
        /\ loops[l].checks <= 150
        /\ loops[l].phase = "waiting" => loops[l].timer = 2000
        /\ loops[l].phase = "checking" => loops[l].timer = 0

\* C9: when a status check of a loop sees its task reported as not running,
\* that step sets the task's isRunning to false and records a last-run time,
\* reloads the logs if the task is crawl, and leaves the loop with no timer
\* and no check; from then on the loop performs no further status check.
C9_NotRunningStopsLoop ==
    [][\A l \in 1..Len(loops) :
          LET status == IF loops[l].taskType = "crawl" THEN crawlStatus'
                        ELSE summaryStatus'
          IN  /\ ( /\ loops[l].phase = "checking"
                   /\ loops'[l] # loops[l]
                   /\ pollEvent'.kind = "check"
                   /\ pollEvent'.answer = "idle" ) =>
                     /\ ~status.isRunning
                     /\ status.lastRun # Null
                     /\ loops'[l].phase =
                           IF loops[l].taskType = "crawl" THEN "logs" ELSE "done"
                     /\ loops'[l].checks = loops[l].checks
              /\ loops[l].phase \in {"logs", "done"} =>
                     /\ loops'[l].phase \in {"logs", "done"}
                     /\ loops'[l].checks = loops[l].checks
      ]_vars

\* The third check of a crawl loop has just seen the job not running: the
\* status is updated and the reload of the logs is in flight.
C9_Witness ==
    /\ pollEvent.kind = "check"
    /\ pollEvent.task = "crawl"
    /\ pollEvent.answer = "idle"
    /\ Len(loops) = 1
    /\ loops[1].taskType = "crawl"
    /\ loops[1].checks = 3
    /\ loops[1].phase = "logs"
    /\ ~crawlStatus.isRunning
    /\ crawlStatus.lastRun = "now"

\* C10: when the POST that triggers a job fails, by a rejected fetch or by a
\* response that is not ok, that step shows the alert naming the manual
\* command, puts the job's isRunning back to false and starts no polling
\* loop; the status of the other job is left as it is.
C10_TriggerFailure ==
    [][\A task \in Tasks :
          ( /\ triggers[task] > 0
            /\ triggers'[task] < triggers[task]
            /\ pollEvent'.answer \in {"500", "network"} ) =>
              /\ pollEvent'.kind = "trigger"
              /\ pollEvent'.task = task
              /\ pollEvent'.alert = ManualCommand(task)
              /\ IF task = "crawl"
                 THEN /\ ~crawlStatus'.isRunning
                      /\ summaryStatus' = summaryStatus
                 ELSE /\ ~summaryStatus'.isRunning
                      /\ crawlStatus' = crawlStatus
              /\ loops' = loops
      ]_vars

\* The crawl could not be triggered while the summary job is being polled:
\* the alert names monitor.py, crawl is not running, the summary still is, and
\* the only loop is the summary's.
C10_Witness ==
    /\ pollEvent.kind = "trigger"
    /\ pollEvent.task = "crawl"
    /\ pollEvent.answer = "network"
    /\ pollEvent.alert = "python3 script/monitor.py"
    /\ ~crawlStatus.isRunning
    /\ summaryStatus.isRunning
    /\ Len(loops) = 1
    /\ loops[1].taskType = "summary"
    /\ loops[1].phase \in {"waiting", "checking"}

-----------------------------------------------------------------------------
(* Claims about the admin token *)

LoginAnswered(status) == [call |-> "login", status |-> status]

\* A token is put into localStorage by the step of a successful login only.
TokenWrittenByLoginOnly ==
    (localStorageToken' # localStorageToken /\ localStorageToken' # Null) =>
        /\ lastResponse' = LoginAnswered("ok")
        /\ authToken' = localStorageToken'
        /\ isAuthenticated'

\* A login that fails stores nothing and leaves the console unauthenticated.
FailedLoginStoresNothing ==
    (lastResponse' \in {LoginAnswered(s) : s \in Statuses \ {"ok"}}) =>
        /\ localStorageToken' = Null
        /\ authToken' = Null
        /\ ~isAuthenticated'

\* A step that ends the session leaves no token behind.
LogoutLeavesNoToken ==
    (isAuthenticated /\ ~isAuthenticated') =>
        /\ localStorageToken' = Null
        /\ authToken' = Null

\* A token leaves localStorage by a logout or a 401 only.
TokenRemovedByLogoutOnly ==
    (localStorageToken # Null /\ localStorageToken' = Null) =>
        /\ ~isAuthenticated'
        /\ \/ lastResponse' = NoResponse
           \/ lastResponse'.call \in BearerCalls /\ lastResponse'.status = "401"

\* The step in which a bearer call is answered with a 401 removes the token.
TokenRemovedBy401 ==
    (lastResponse'.call \in BearerCalls /\ lastResponse'.status = "401") =>
        localStorageToken' = Null

\* C11 (as claimed): the token in localStorage is written only by a successful
\* login response and is removed by logout and by a 401; a failed login stores
\* no token and leaves the console unauthenticated; after logout no token
\* remains in localStorage or in the component state.
C11_TokenLifecycle ==
    [][/\ TokenWrittenByLoginOnly
       /\ FailedLoginStoresNothing
       /\ LogoutLeavesNoToken
       /\ TokenRemovedByLogoutOnly
       /\ TokenRemovedBy401]_vars

-----------------------------------------------------------------------------
(* Claims about the load of the data *)

Fetched(f) == productFetches[f] \in {"full", "no-features"}

Listed(f) == \E i \in 1..Len(hookProducts) : hookProducts[i].name = f

\* The load has ended after the tag document was read.
LoadEnded == loadPhase = "done" /\ tagFetch = "ok"

\* C12: when a load ends in which product documents could not be fetched or
\* decoded (rejected fetch, response not ok, body not JSON, no app info), the
\* error is null, loading is false, and the products are exactly those of
\* the other documents: only the failed ones are missing.
C12_FailedProductOmitted ==
    LoadEnded =>
        /\ error = Null
        /\ ~loading
        /\ \A f \in FileSet : Listed(f) <=> Fetched(f)
        /\ Len(hookProducts) = Cardinality({f \in FileSet : Fetched(f)})

\* A load has ended in which the first document was not JSON and the fetch of
\* the second was rejected: the third product alone is listed.
C12_Witness ==
    /\ LoadEnded
    /\ productFetches[Files[1]] = "invalid-json"
    /\ productFetches[Files[2]] = "network"
    /\ \A i \in 3..Len(Files) : productFetches[Files[i]] = "full"
    /\ Len(hookProducts) = Len(Files) - 2
    /\ hookProducts[1].name = Files[3]
    /\ error = Null
    /\ ~loading

\* C13: when the tag document cannot be fetched or answers not ok, the load
\* ends with a non-null error and loading false, and App renders the error
\* with Retry and nothing else; the load Retry starts is a new one, and when
\* it succeeds the error is null and the pages are rendered.
C13_TagFailureBlocksAndRetries ==
    /\ (loadPhase = "done" /\ tagFetch \in {"network", "non-ok"}) =>
          /\ error # Null
          /\ ~loading
          /\ App = "Error and Retry"
    /\ (loadTrigger = "retry" /\ loadPhase = "tags") =>
          /\ loading
          /\ error = Null
          /\ tagFetch = "pending"
          /\ App = "Loading data..."
    /\ (loadTrigger = "retry" /\ LoadEnded) =>
          /\ error = Null
          /\ ~loading
          /\ App = "pages"

\* The load started by Retry has succeeded.
C13_Witness ==
    /\ loadTrigger = "retry"
    /\ LoadEnded
    /\ error = Null
    /\ App = "pages"
    /\ \A f \in FileSet : Listed(f)

NamesOf(list) == [i \in 1..Len(list) |-> list[i].name]

\* C19: the product fetches of a load are started together; until all of
\* them have settled loading is true and setProducts has not been called; a
\* load calls setProducts once, and the list it assigns holds the products
\* fetched, in the order of the product keys, whatever order the fetches
\* completed in.
C19_FanOutAndJoin ==
    /\ loadPhase = "products" =>
          /\ \A f \in FileSet : productFetches[f] # "idle"
          /\ loading
          /\ assigned = 0
    /\ assigned = 1 => \A f \in FileSet : productFetches[f] \notin {"idle", "pending"}
    /\ assigned <= 1
    /\ LoadEnded =>
          /\ assigned = 1
          /\ Len(settled) = Len(Files)
          /\ NamesOf(hookProducts) = SelectSeq(Files, Fetched)

\* A load has ended whose fetches completed in the reverse of the key order,
\* all with a product: the products are in key order.
C19_Witness ==
    /\ LoadEnded
    /\ settled = [i \in 1..Len(Files) |-> Files[Len(Files) + 1 - i]]
    /\ NamesOf(hookProducts) = Files
    /\ assigned = 1
    /\ ~loading

-----------------------------------------------------------------------------
(* Claims about parseDate *)

\* The Date of midnight UTC of a day.
UtcDay(y, m, d) == [nan |-> FALSE, time |-> 24 * DaysFromCivil(y, m, d)]

NeitherPattern(str) == FirstIsoPosition(str) = 0 /\ FirstSlashPosition(str) = 0

\* The first pattern is tried first, and a string with neither is the epoch.
PatternsInOrder ==
    /\ timeString \in {"on 1/2/2024, see 2023-11-30", "2023-11-30 (1/2/2024)"} =>
          hookDate.date = UtcDay(2023, 11, 30)
    /\ NeitherPattern(timeString) => hookDate.date = UtcDay(1970, 1, 1)

IsoExample ==
    timeString = "2024-03-05 some text" => hookDate.date = UtcDay(2024, 3, 5)

SlashExample ==
    timeString = "3/5/2024" => hookDate.date = UtcDay(2024, 3, 5)

SameAsPageCopy == pageDate.called => pageDate.date = hookDate.date

\* C17 (as claimed): parseDate tries YYYY-MM-DD first, then M/D/YYYY, and
\* otherwise returns the epoch; "2024-03-05 some text" parses to 2024-03-05,
\* "3/5/2024" to the same date, a string with neither pattern to 1970-01-01;
\* the copy in the product detail page returns the same for every input.
C17_ParseDate ==
    hookDate.called =>
        /\ PatternsInOrder
        /\ IsoExample
        /\ SlashExample
        /\ SameAsPageCopy

-----------------------------------------------------------------------------
(* Claims about the excluded tags *)

\* The features of the loaded products that carry tag p with subtag s.
CarryingFeatures(p, s) ==
    Cardinality({q \in (1..Len(matrixProducts)) \X (1..MaxFeatures) :
        /\ q[2] <= Len(matrixProducts[q[1]].features.items)
        /\ Carries(matrixProducts[q[1]].features.items[q[2]], p, s)})

RECURSIVE SumCarrying(_, _, _)
SumCarrying(names, i, p) ==
    IF i > Len(names) THEN 0
    ELSE CarryingFeatures(p, names[i]) + SumCarrying(names, i + 1, p)

\* The Matrix shows no group and no row whose primary or secondary tag is in
\* the list it has loaded.
MatrixHidesExcluded ==
    (OnScreen("matrix") /\ configFetch = "settled") =>
        \A g \in 1..Len(matrixView.groups) :
            LET group == matrixView.groups[g]
            IN  /\ ~Includes(excludeTags, group.primaryTag)
                /\ \A r \in 1..Len(group.rows) :
                      /\ ~Includes(excludeTags, group.rows[r].primaryTag)
                      /\ ~Includes(excludeTags, group.rows[r].secondaryTag)

\* The Tags page shows no card for a tag in the list it has loaded, and a
\* card counts no subtag in the list: neither among its subtags nor among
\* its features.
TagsPageHidesExcluded ==
    (OnScreen("tags") /\ configFetch = "settled") =>
        \A c \in 1..Len(tagsView.cards) :
            LET card == tagsView.cards[c]
            IN  /\ ~Includes(excludeTags, card.name)
                /\ \A i \in 1..Len(card.subtags) :
                      ~Includes(excludeTags, card.subtags[i])
                /\ card.subtagCount = Len(card.subtags)
                /\ card.totalFeatures = SumCarrying(card.subtags, 1, card.name)

\* The page of a tag shows no subtag in the list it has loaded.
TagDetailHidesExcludedSubtags ==
    (OnScreen("tagDetail") /\ configFetch = "settled") =>
        \A c \in 1..Len(detailView.subtags) :
            ~Includes(excludeTags, detailView.subtags[c].name)

\* The page of a tag is not the page of a tag in the list it has loaded.
TagDetailHidesExcludedTag ==
    (OnScreen("tagDetail") /\ configFetch = "settled" /\ ~detailView.crashed) =>
        ~Includes(excludeTags, detailView.primaryTag)

\* C18 (as claimed): once the excluded-tags list is loaded, no tag or subtag
\* whose name is in it appears in the read-only views: the Matrix shows no row
\* whose primary or secondary tag is excluded, the Tags page shows no card for
\* an excluded primary tag and counts no excluded subtag, and the page of a
\* tag shows neither an excluded tag nor an excluded subtag.
C18_ExcludedTagsHidden ==
    /\ MatrixHidesExcluded
    /\ TagsPageHidesExcluded
    /\ TagDetailHidesExcludedSubtags
    /\ TagDetailHidesExcludedTag

-----------------------------------------------------------------------------
(* Claims about leaving the console *)

\* The loops that are there issue no status check in this step.
NoFurtherCheck ==
    /\ Len(loops') >= Len(loops)
    /\ \A l \in 1..Len(loops) : loops'[l].checks = loops[l].checks

\* The state of the page is not updated in this step.
NoStateUpdate == UNCHANGED <<crawlStatus, summaryStatus, scriptLogs>>

\* Once the page has been left, nothing updates the state it had.
StateKeptAfterLeaving == [][~mounted => NoStateUpdate]_vars

\* C20 (as claimed): navigating away from the admin page cancels a running
\* job-status polling loop: once the page has been left, no loop issues a
\* further status check and none makes a further state update.
C20_LeavingCancelsPolling ==
    [][~mounted => (NoFurtherCheck /\ NoStateUpdate)]_vars

-----------------------------------------------------------------------------
(* Claims about the Tags page and the Matrix side by side *)

\* The secondary tags of the rows of a primary tag, in the order of the rows.
RECURSIVE SecondaryTagsOf(_, _, _)
SecondaryTagsOf(rows, i, primary) ==
    IF i > Len(rows) THEN <<>>
    ELSE (IF rows[i].primaryTag = primary THEN <<rows[i].secondaryTag>>
          ELSE <<>>) \o SecondaryTagsOf(rows, i + 1, primary)

\* The rows of the groups of a render of the Matrix, one group after another.
RECURSIVE RowsOfGroups(_, _)
RowsOfGroups(groups, g) ==
    IF g > Len(groups) THEN <<>>
    ELSE groups[g].rows \o RowsOfGroups(groups, g + 1)

\* The cards are those of the tags that are not excluded, and each counts the
\* secondary tags of the rows.
CardsMatchRows(cards, rows, excluded) ==
    /\ \A i \in 1..Len(matrixTags) :
          (\E c \in 1..Len(cards) : cards[c].name = matrixTags[i].name)
              <=> ~Includes(excluded, matrixTags[i].name)
    /\ \A c \in 1..Len(cards) :
          /\ cards[c].subtags = SecondaryTagsOf(rows, 1, cards[c].name)
          /\ cards[c].subtagCount = Len(cards[c].subtags)

WellTypedProducts ==
    \A k \in 1..Len(matrixProducts) : WellTypedProduct(matrixProducts[k])

\* C29: for every taxonomy with unique tag names, every list of products and
\* every list of excluded tags, the subtags a card of the Tags page counts are
\* the secondary tags of the rows the Matrix shows for that primary tag, and a
\* primary tag has a card iff it is not excluded; whichever of the two pages
\* is on the screen is compared with the render of the other.
C29_CardsMatchRows ==
    (WellTypedProducts /\ ~Crashed) =>
        /\ OnScreen("tags") =>
              CardsMatchRows(tagsView.cards,
                             tagRows(matrixTags, excludeTags, matrixProducts).rows,
                             excludeTags)
        /\ OnScreen("matrix") =>
              CardsMatchRows(TagsPage(matrixTags, matrixProducts, excludeTags).cards,
                             RowsOfGroups(matrixView.groups, 1),
                             excludeTags)

\* The Tags page has loaded the list [Other]: the card of UI counts Forms, the
\* card of Infra, whose only row would be (Infra, Other), counts nothing
\* although a feature carries Infra with no subtags.
C29_Witness ==
    /\ OnScreen("tags")
    /\ configFetch = "settled"
    /\ excludeTags = <<"Other">>
    /\ WellTypedProducts
    /\ ~Crashed
    /\ Len(tagsView.cards) = 2
    /\ \E c \in 1..2 :
          /\ tagsView.cards[c].name = "UI"
          /\ tagsView.cards[c].subtags = <<"Forms">>
    /\ \E c \in 1..2 :
          /\ tagsView.cards[c].name = "Infra"
          /\ tagsView.cards[c].subtags = <<>>
    /\ \E i \in 1..Len(matrixProducts[1].features.items) :
          Carries(matrixProducts[1].features.items[i], "Infra", "Other")

-----------------------------------------------------------------------------
(* Claims about the session of the console *)

\* C25: in every reachable state of the admin console, before and after the
\* saved session is restored, isAuthenticated is true exactly when authToken
\* is not null, and exactly when localStorage holds admin_token with the value
\* of authToken.
C25_SessionConsistent ==
    /\ isAuthenticated <=> authToken # Null
    /\ isAuthenticated <=>
          (localStorageToken # Null /\ localStorageToken = authToken)

\* A login has just succeeded while requests of the session before it are
\* still in flight.
C25_Witness ==
    /\ mounted
    /\ isAuthenticated
    /\ lastResponse = [call |-> "login", status |-> "ok"]
    /\ authToken = "token-2"
    /\ localStorageToken = "token-2"
    /\ \E i \in 1..Len(requests) : requests[i].token = "token-1"

\* This step answers request i with a 401, and request i was sent with a
\* token that is not the token of the session.
Late401(i) ==
    /\ isAuthenticated
    /\ requests[i].token \notin {Null, authToken}
    /\ lastResponse' = [call |-> requests[i].call, status |-> "401"]
    /\ Len(requests') >= Len(requests) - 1
    /\ SubSeq(requests', 1, Len(requests) - 1) = RemoveAt(requests, i)

\* C26 (as claimed): a 401 response to a request that was issued under an
\* earlier token does not log out the session a later login has established:
\* the new token, in the state and in localStorage, and isAuthenticated stay
\* as they are.
C26_Late401KeepsNewSession ==
    [][\A i \in 1..Len(requests) :
          Late401(i) =>
              UNCHANGED <<authToken, localStorageToken, isAuthenticated>>]_vars

-----------------------------------------------------------------------------
(* Claims about the reloads after a write *)

\* This step deals with the response to request i, a request of the endpoint
\* call answered with the status given.
AnswersRequest(i, call, status) ==
    /\ requests[i].call = call
    /\ lastResponse' = [call |-> call, status |-> status]
    /\ Len(requests') >= Len(requests) - 1
    /\ SubSeq(requests', 1, Len(requests) - 1) = RemoveAt(requests, i)

\* The loads the handler of this step goes on to: the one it sends in this
\* step and those it awaits after it, in their order.
ReloadsStarted ==
    IF Len(requests') = Len(requests)
    THEN <<requests'[Len(requests')].call>> \o requests'[Len(requests')].next
    ELSE <<>>

\* This step answers a write of the endpoint given: with the reloads given
\* after an ok response, and with none after any other outcome.
WriteReloads(call, reloads) ==
    \A i \in 1..Len(requests), status \in Statuses :
        AnswersRequest(i, call, status) =>
            ReloadsStarted = IF status = "ok" THEN reloads ELSE <<>>

\* A successful feature tag update, edit or delete reloads the feature list, a
\* successful Others reclassification the Others list and then the tag data,
\* and a failed one of them nothing.
ReloadsOfFeatureAndOthersWrites ==
    [][/\ WriteReloads("feature/update-tags", <<"features">>)
       /\ WriteReloads("feature/edit", <<"features">>)
       /\ WriteReloads("feature/delete", <<"features">>)
       /\ WriteReloads("others/update", <<"others", "tags">>)]_vars

\* A rename reloads the tag data when it succeeds and nothing when it fails.
RenameReloadsTagData == [][WriteReloads("tag/rename", <<"tags">>)]_vars

\* A successful rename reloads the tag data and the lists that display tag
\* names: the feature list, whose cards show the tags of every feature.
RenameReloadsLists ==
    \A i \in 1..Len(requests) :
        AnswersRequest(i, "tag/rename", "ok") =>
            /\ \E k \in 1..Len(ReloadsStarted) : ReloadsStarted[k] = "tags"
            /\ \E k \in 1..Len(ReloadsStarted) : ReloadsStarted[k] = "features"

\* C21 (as claimed): after each successful admin write the affected lists are
\* reloaded, and after a failed write none is: a successful feature tag
\* update, edit or delete reloads the feature list; a successful Others
\* reclassification reloads the Others list and then the tag data; a
\* successful rename reloads the tag data and every list that displays tag
\* names.
C21_WritesReloadAffectedLists ==
    [][/\ WriteReloads("feature/update-tags", <<"features">>)
       /\ WriteReloads("feature/edit", <<"features">>)
       /\ WriteReloads("feature/delete", <<"features">>)
       /\ WriteReloads("others/update", <<"others", "tags">>)
       /\ RenameReloadsLists]_vars

-----------------------------------------------------------------------------
(* Claims about the run buttons *)

\* C23: once runIncrementalUpdate or runAISummary has set isRunning of a job,
\* the flag returns to false in every execution in which timers fire and
\* requests are answered, those included in which the status endpoint keeps
\* failing or keeps reporting the job as running until the loop gives up.
C23_RunningEventuallyEnds ==
    /\ crawlStatus.isRunning ~> ~crawlStatus.isRunning
    /\ summaryStatus.isRunning ~> ~summaryStatus.isRunning

\* The loops of a job that still have a check ahead of them or under way.
ActiveLoops(task) ==
    {l \in 1..Len(loops) :
        /\ loops[l].taskType = task
        /\ loops[l].phase \in {"waiting", "checking"}}

\* C24: at any time at most one polling loop is active for crawl and at most
\* one for summary, whatever the sequence of session restore, login, logout,
\* status load and clicks on the run buttons.
C24_OneLoopPerTask ==
    \A task \in Tasks : Cardinality(ActiveLoops(task)) <= 1

-----------------------------------------------------------------------------
(* Claims about the loaders of the lists *)

\* The load that the step has just ended.
Ended(outcome) == listEvent'.list \in ListNames /\ listEvent'.outcome = outcome

\* Whatever the outcome, the loader that ends leaves its loading flag false.
EndsNotLoading ==
    listEvent'.list \in ListNames => ~listLoading'[listEvent'.list]

\* A status that is neither ok nor 401, a rejection and an abort set the
\* error of the list and leave the list as it was.
FailureSetsError ==
    \A outcome \in {"status", "network", "timeout"} :
        Ended(outcome) =>
            /\ listError'[listEvent'.list] = ErrorOf(outcome)
            /\ listShown' = listShown

\* A 401 and an ok response set no error.
SuccessSetsNoError ==
    \A outcome \in {"ok", "401"} :
        Ended(outcome) => listError'[listEvent'.list] = listError[listEvent'.list]

\* No fetch is still pending once more than the timeout has passed.
AbortedInTime ==
    \A i \in 1..Len(listRequests') :
        /\ listRequests'[i].list \in ListNames
        /\ listRequests'[i].phase = "fetching"
        => listRequests'[i].elapsed <= requestTimeout

\* C22: each of loadOthersFeatures, loadUntaggedFeatures and loadFeatures
\* aborts a fetch that is still pending after 30 seconds; whether it ends on
\* an ok response, a 401, another status, a network error or the abort, its
\* loading flag is false when it ends; on another status, a network error and
\* the abort its error message is set and its list is the one it was.
C22_LoadersEndNotLoading ==
    [][/\ EndsNotLoading
       /\ FailureSetsError
       /\ SuccessSetsNoError
       /\ AbortedInTime]_vars

\* A loader has been aborted by its timer while another load of the same
\* list had ended before with a list.
C22_Witness ==
    /\ listEvent.outcome = "timeout"
    /\ listError[listEvent.list] = ErrorOf("timeout")
    /\ ~listLoading[listEvent.list]
    /\ listShown[listEvent.list].seq > 0

-----------------------------------------------------------------------------
(* Claims about the feature list *)

\* The loads of the feature list that are in flight.
FeatureLoads ==
    {i \in 1..Len(listRequests) : listRequests[i].list = "features"}

\* C27: the feature list on the screen is that of the most recently issued
\* loadFeatures request that was answered: a response to an older request
\* never takes the place of the list of a newer one.
C27_LatestRequestShown ==
    [][listShown'["features"].seq >= listShown["features"].seq]_vars

\* The loads of the feature list have ended and the list is on the screen of
\* the authenticated console.
FeaturesSettled == FeaturesDisplayed /\ FeatureLoads = {}

\* C28: whenever a load of the feature list has ended and none is in
\* flight, featurePage is the page that was requested for the list on the
\* screen, whatever the sequence of product changes, searches by the button
\* or the Enter key, previous and next clicks and reloads after writes; and
\* featurePage is never below 1.
C28_PageIsThePageShown ==
    /\ featurePage >= 1
    /\ FeaturesSettled => featurePage = listShown["features"].page

-----------------------------------------------------------------------------
(* Claims about the tags edited in a card *)

\* The last step removed the only subtag of an entry.
RemovedLastSubtag ==
    /\ cardEvent.op = "removeSubtag"
    /\ \E i \in 1..Len(cardEvent.before) :
          /\ cardEvent.before[i].name = cardEvent.primary
          /\ cardEvent.before[i].subtags = <<cardEvent.subtag>>

\* The list the card took from its feature, when it mounted or when the
\* feature last changed, has distinct primary names, each with distinct
\* subtags and at least one.
StartedWellFormed == WellFormedTags(normalizeTags(cardFeature))

EditedTagsKept ==
    /\ WellFormedTags(editedTags)
    /\ RemovedLastSubtag => ~hasPrimary(editedTags, cardEvent.primary)

\* C30 (as claimed): a list of the card with distinct primary names, each
\* with distinct subtags and at least one, never comes to hold, whatever is
\* added and removed, two entries of one primary name, an entry with a subtag
\* twice or an entry without subtags; and removing the last subtag of a
\* primary removes the entry of that primary.
C30_NeverMalformed ==
    [][WellFormedTags(editedTags) => EditedTagsKept']_vars

\* C30: when the list the card last took from its feature has distinct
\* primary names, each with distinct subtags and at least one, then after
\* every sequence of addTag and removeSubtag since, the list has no two
\* entries of one primary name, no entry with a subtag twice and no entry
\* without subtags; and removing the last subtag of a primary removes the
\* entry of that primary.
C30_EditedTagsWellFormed == StartedWellFormed => EditedTagsKept

\* From a list of two entries taken from the feature, the last subtag of one
\* has been removed, and the other entry is left with its two subtags.
C30_Witness ==
    /\ StartedWellFormed
    /\ RemovedLastSubtag
    /\ Len(cardEvent.before) = 2
    /\ Len(editedTags) = 1
    /\ Len(editedTags[1].subtags) = 2

====
